---- MODULE Spec2Model ----
(***************************************************************************)
(* Model of the auto-signin engine: the session store                      *)
(* (src/utils/session.js), the per-target runner (BaseSignIn.run, driven   *)
(* by AutoSignIn.signInPlatform in src/index.js) and the store's clients.  *)
(*                                                                         *)
(* Time is counted in whole days: `now' is Date.now() and a file's mtime   *)
(* is stats.mtime.getTime(), both divided by 1000*60*60*24.                *)
(***************************************************************************)
EXTENDS Integers, Sequences, FiniteSets, TLC

(* PLATFORM_CLASSES keys, in the order of the platform configuration. *)
Targets == {"juejin", "bilibili"}

(* Session lifetime in days: `daysSinceModified > 7'. *)
TTL == 7

(* The clock value at which the model stops advancing time. *)
MaxClock == 9

(* Clock value of the initial state; files found on disk at start-up were  *)
(* written at most this long ago.                                          *)
StartClock == TTL + 1

(* Cookie lists a browser context can hold when its state is stored. *)
Blobs == {<< >>, <<"sid">>}

(***************************************************************************)
(* Contents of a session file, by what JSON.parse and `data.cookies' make  *)
(* of them.                                                                *)
(***************************************************************************)
Garbage == [json |-> "garbage", tag |-> "undefined", cookies |-> << >>]
JsonNull == [json |-> "null", tag |-> "undefined", cookies |-> << >>]
ObjNoCookies == [json |-> "object", tag |-> "undefined", cookies |-> << >>]
ObjBadCookies == [json |-> "object", tag |-> "notArray", cookies |-> << >>]
StorageState(blob) == [json |-> "object", tag |-> "array", cookies |-> blob]

Contents == {Garbage, JsonNull, ObjNoCookies, ObjBadCookies}
              \cup {StorageState(b) : b \in Blobs}

NoFile == [exists |-> FALSE, data |-> Garbage, mtime |-> 0]
File(d, m) == [exists |-> TRUE, data |-> d, mtime |-> m]
EmptyDir == [t \in Targets |-> NoFile]

VARIABLES
    files,   \* the sessions directory: target |-> `<target>_state.json'
    now,     \* Date.now(), in days
    last,    \* the session-store call made by the latest step
    run,     \* target |-> the state of its Target Runner
    orch,    \* the AutoSignIn instance and the position of its current call
    sched,   \* the CronScheduler instance, its timers and its process
    daemon   \* the SignInDaemon instance and what its process has loaded

vars == <<files, now, last, run, orch, sched, daemon>>

(***************************************************************************)
(* SessionManager.  The fs calls on the sessions directory (stat, unlink,  *)
(* readdir, the write of storageState) are taken to succeed; what varies   *)
(* is whether a file exists, what it contains and how old it is.           *)
(***************************************************************************)
existsSync(fs, t) == fs[t].exists

daysSinceModified(fs, t, clock) == clock - fs[t].mtime

(* clearSession: unlink the file when it exists; nothing is thrown. *)
clearSessionKeep(fs, t) == fs

clearSessionAll(fs, t) ==
    IF existsSync(fs, t) THEN [u \in Targets |-> NoFile] ELSE fs

clearSession(fs, t) ==
    IF existsSync(fs, t) THEN [fs EXCEPT ![t] = NoFile] ELSE fs

(* hasValidSession: the directory after the call and the value returned. *)
hasValidSessionNoTTL(fs, t, clock) ==
    IF ~existsSync(fs, t) THEN [fs |-> fs, ret |-> "false"]
    ELSE IF fs[t].data.json = "garbage"
        THEN [fs |-> clearSession(fs, t), ret |-> "false"]
    ELSE IF fs[t].data.json = "null"
        THEN [fs |-> clearSession(fs, t), ret |-> "false"]
    ELSE IF fs[t].data.tag = "undefined" THEN [fs |-> fs, ret |-> "undefined"]
    ELSE IF fs[t].data.tag = "array" THEN [fs |-> fs, ret |-> "true"]
    ELSE [fs |-> fs, ret |-> "false"]

hasValidSessionNonEmpty(fs, t, clock) ==
    IF ~existsSync(fs, t) THEN [fs |-> fs, ret |-> "false"]
    ELSE IF fs[t].data.json = "garbage"
        THEN [fs |-> clearSession(fs, t), ret |-> "false"]
    ELSE IF daysSinceModified(fs, t, clock) > TTL
        THEN [fs |-> clearSession(fs, t), ret |-> "false"]
    ELSE IF fs[t].data.json = "null"
        THEN [fs |-> clearSession(fs, t), ret |-> "false"]
    ELSE IF fs[t].data.tag = "undefined" THEN [fs |-> fs, ret |-> "undefined"]
    ELSE IF fs[t].data.tag = "array" /\ Len(fs[t].data.cookies) > 0
        THEN [fs |-> fs, ret |-> "true"]
    ELSE [fs |-> fs, ret |-> "false"]

hasValidSessionKeepCorrupt(fs, t, clock) ==
    IF ~existsSync(fs, t) THEN [fs |-> fs, ret |-> "false"]
    ELSE IF fs[t].data.json = "garbage"
        THEN [fs |-> fs, ret |-> "false"]
    ELSE IF daysSinceModified(fs, t, clock) > TTL
        THEN [fs |-> clearSession(fs, t), ret |-> "false"]
    ELSE IF fs[t].data.json = "null"
        THEN [fs |-> clearSession(fs, t), ret |-> "false"]
    ELSE IF fs[t].data.tag = "undefined" THEN [fs |-> fs, ret |-> "undefined"]
    ELSE IF fs[t].data.tag = "array" THEN [fs |-> fs, ret |-> "true"]
    ELSE [fs |-> fs, ret |-> "false"]

hasValidSession(fs, t, clock) ==
    IF ~existsSync(fs, t) THEN [fs |-> fs, ret |-> "false"]
    \* JSON.parse(readFileSync(..)) throws: caught, file cleared
    ELSE IF fs[t].data.json = "garbage"
        THEN [fs |-> clearSession(fs, t), ret |-> "false"]
    ELSE IF daysSinceModified(fs, t, clock) > TTL
        THEN [fs |-> clearSession(fs, t), ret |-> "false"]
    \* `data.cookies' on null throws a TypeError: caught, file cleared
    ELSE IF fs[t].data.json = "null"
        THEN [fs |-> clearSession(fs, t), ret |-> "false"]
    \* `data.cookies && Array.isArray(data.cookies)'
    ELSE IF fs[t].data.tag = "undefined" THEN [fs |-> fs, ret |-> "undefined"]
    ELSE IF fs[t].data.tag = "array" THEN [fs |-> fs, ret |-> "true"]
    ELSE [fs |-> fs, ret |-> "false"]

(* getStorageStatePath: the session path when hasValidSession is truthy. *)
getStorageStatePathKeepExpired(fs, t, clock) ==
    LET r == hasValidSessionNoTTL(fs, t, clock)
    IN  [fs |-> r.fs, ret |-> IF r.ret = "true" THEN "path" ELSE "null"]

getStorageStatePath(fs, t, clock) ==
    LET r == hasValidSession(fs, t, clock)
    IN  [fs |-> r.fs, ret |-> IF r.ret = "true" THEN "path" ELSE "null"]

(* cleanupExpiredSessions: unlink every `*_state.json' older than 7 days. *)
cleanupExpiredSessionsOffByOne(fs, clock) ==
    [t \in Targets |->
        IF existsSync(fs, t) /\ daysSinceModified(fs, t, clock) >= TTL
        THEN NoFile ELSE fs[t]]

cleanupExpiredSessions(fs, clock) ==
    [t \in Targets |->
        IF existsSync(fs, t) /\ daysSinceModified(fs, t, clock) > TTL
        THEN NoFile ELSE fs[t]]

(* getAllSessions: one entry per `*_state.json' file, from its age alone. *)
getAllSessions(fs, clock) ==
    {[platform |-> t,
      isValid |-> (daysSinceModified(fs, t, clock) <= TTL),
      daysOld |-> daysSinceModified(fs, t, clock)] :
        t \in {u \in Targets : existsSync(fs, u)}}

(* cleanedCount: the counter cleanupExpiredSessions ends with; it is        *)
(* logged when positive and the method returns nothing.                    *)
cleanedCountAllFiles(fs, clock) ==
    Cardinality({t \in Targets : existsSync(fs, t)})

cleanedCount(fs, clock) ==
    Cardinality({t \in Targets :
        existsSync(fs, t) /\ daysSinceModified(fs, t, clock) > TTL})

(* saveStorageState: context.storageState({path}) writes the context's     *)
(* cookies to the session file.                                            *)
saveStorageStateNoWrite(fs, t, blob, clock) == fs

saveStorageStateNoOverwrite(fs, t, blob, clock) ==
    IF existsSync(fs, t) THEN fs
    ELSE [fs EXCEPT ![t] = File(StorageState(blob), clock)]

saveStorageState(fs, t, blob, clock) ==
    [fs EXCEPT ![t] = File(StorageState(blob), clock)]

(* What a file holds while, or after, a write to it was cut short: it does *)
(* not parse.                                                              *)
Torn == [json |-> "garbage", tag |-> "torn", cookies |-> << >>]

(* How the write of storageState can go: done, refused before anything was *)
(* written, or failed part-way.                                            *)
WriteOutcomes == {"ok", "refused", "torn"}

(* saveStorageState with its try/catch: a failed write is logged and       *)
(* swallowed.                                                              *)
saveStorageStateUncaught(fs, t, blob, clock, w) ==
    IF w = "ok"
    THEN [fs |-> saveStorageState(fs, t, blob, clock), ret |-> "undefined"]
    ELSE [fs |-> IF w = "torn" THEN [fs EXCEPT ![t] = File(Torn, clock)]
                 ELSE fs,
          ret |-> "raise"]

saveStorageStateTry(fs, t, blob, clock, w) ==
    IF w = "ok"
    THEN [fs |-> saveStorageState(fs, t, blob, clock), ret |-> "undefined"]
    ELSE [fs |-> IF w = "torn" THEN [fs EXCEPT ![t] = File(Torn, clock)]
                 ELSE fs,
          ret |-> "undefined"]

(***************************************************************************)
(* The store call of the latest step.                                      *)
(***************************************************************************)
(* `count' is the cleanedCount a cleanup ended with, `blob' the cookies a   *)
(* save was given, `write' how its write to the file went, `message' the   *)
(* message of what was thrown and `arg' the argument of a scheduler call.  *)
NoCall == [op |-> "none", target |-> "none", ret |-> "none",
           pre |-> EmptyDir, again |-> FALSE,
           count |-> 0, blob |-> << >>, write |-> "none",
                  message |-> "none", arg |-> << >>]

Call(o, t, r) == [op |-> o, target |-> t, ret |-> r, pre |-> files,
                  again |-> (last.op = o /\ last.target = t),
                  count |-> 0, blob |-> << >>, write |-> "none",
                  message |-> "none", arg |-> << >>]

(***************************************************************************)
(* Target Runner: one run of BaseSignIn.run() under                        *)
(* AutoSignIn.signInPlatform.                                              *)
(***************************************************************************)
Outcomes == {"true", "false", "raise"}

IdleRun == [pc |-> "idle", handle |-> FALSE, seeded |-> FALSE,
            hadFile |-> FALSE,
            checked |-> "none", login |-> "none", checkin |-> "none",
            loginCalls |-> 0, checkInCalls |-> 0, saves |-> 0,
            teardowns |-> 0, out |-> "none", message |-> "none"]

InFlight(t) == run[t].pc \notin {"idle", "Closed"}

(* No Target Runner is between its start and its end. *)
Quiescent == \A t \in Targets : ~InFlight(t)

(***************************************************************************)
(* AutoSignIn: this.platforms, this.results and the position of the call   *)
(* in progress.                                                            *)
(***************************************************************************)
(* Enabled platform lists of config.getPlatforms(); "newplatform" is       *)
(* configured but has no entry in PLATFORM_CLASSES.                        *)
PlatformConfigs == {<< >>, <<"bilibili", "newplatform", "juejin">>}

PlatformNames == Targets \cup {"newplatform", "disabled"}

(* Calls made on one AutoSignIn instance. *)
MaxPasses == 2

NoReport == [total |-> 0, successCount |-> 0, failCount |-> 0,
             printed |-> FALSE]

NewOrch(ps) == [platforms |-> ps, results |-> << >>, pc |-> "idle",
                call |-> "none", parallel |-> FALSE, i |-> 0,
                promises |-> << >>, done |-> << >>,
                housekept |-> FALSE, started |-> 0, delays |-> 0,
                passes |-> 0, report |-> NoReport]

(***************************************************************************)
(* Cron expressions: a sequence of fields, a field being the sequence of   *)
(* its characters; "0 8 * * 1-5" is <<Zero, <<"8">>, Star, Star,           *)
(* <<"1", "-", "5">>>>.                                                    *)
(***************************************************************************)
Digits == <<"0", "1", "2", "3", "4", "5", "6", "7", "8", "9">>

IsDigit(ch) == \E k \in 1..Len(Digits) : Digits[k] = ch

DigitVal(ch) == (CHOOSE k \in 1..Len(Digits) : Digits[k] = ch) - 1

(* The digits of `field' among those of `set', e.g. [0-5]. *)
DigitIn(ch, set) == IsDigit(ch) /\ DigitVal(ch) \in set

IsNumber(field) ==
    /\ Len(field) \in {1, 2}
    /\ \A k \in 1..Len(field) : IsDigit(field[k])

NumberVal(field) ==
    IF Len(field) = 1 THEN DigitVal(field[1])
    ELSE DigitVal(field[1]) * Len(Digits) + DigitVal(field[2])

RECURSIVE Split(_, _)
Split(field, sep) ==
    IF \E k \in 1..Len(field) : field[k] = sep
    THEN LET k == CHOOSE j \in 1..Len(field) :
                     /\ field[j] = sep
                     /\ \A h \in 1..(j - 1) : field[h] # sep
         IN  <<SubSeq(field, 1, k - 1)>>
                 \o Split(SubSeq(field, k + 1, Len(field)), sep)
    ELSE <<field>>

Star == <<"*">>

InRange(field, lo, hi) == IsNumber(field) /\ NumberVal(field) \in lo..hi

(* The field syntax of docs/SCHEDULE.md: `*', a number of the field's      *)
(* range, a range a-b, a list a,b,c or a step `*' `/' n.                   *)
FieldOK(field, lo, hi) ==
    \/ field = Star
    \/ InRange(field, lo, hi)
    \/ LET ends == Split(field, "-")
       IN  /\ Len(ends) = 2
           /\ InRange(ends[1], lo, hi)
           /\ InRange(ends[2], lo, hi)
    \/ LET items == Split(field, ",")
       IN  /\ Len(items) > 1
           /\ \A k \in 1..Len(items) : InRange(items[k], lo, hi)
    \/ /\ Len(field) > 2
       /\ field[1] = "*"
       /\ field[2] = "/"
       /\ IsNumber(SubSeq(field, 3, Len(field)))
       /\ NumberVal(SubSeq(field, 3, Len(field))) > 0

(* minute, hour, day of month, month, day of week *)
FieldRanges == <<<<0, 59>>, <<0, 23>>, <<1, 31>>, <<1, 12>>, <<0, 6>>>>

CronGrammar(expr) ==
    /\ Len(expr) = Len(FieldRanges)
    /\ \A k \in 1..Len(expr) :
          FieldOK(expr[k], FieldRanges[k][1], FieldRanges[k][2])

(* cron.validate of node-cron, on the expressions used here. *)
cronValidateAll(expr) == TRUE

cronValidate(expr) == CronGrammar(expr)

(* ScheduleConfig.validateCronExpression: one regular expression, whose    *)
(* five groups are matched here field by field.                            *)
MatchMinute(f) ==
    \/ f = Star
    \/ Len(f) = 1 /\ IsDigit(f[1])
    \/ Len(f) = 2 /\ DigitIn(f[1], 0..5) /\ IsDigit(f[2])

MatchHour(f) ==
    \/ f = Star
    \/ Len(f) = 1 /\ IsDigit(f[1])
    \/ Len(f) = 2 /\ DigitIn(f[1], 0..1) /\ IsDigit(f[2])
    \/ Len(f) = 2 /\ f[1] = "2" /\ DigitIn(f[2], 0..3)

MatchDay(f) ==
    \/ f = Star
    \/ Len(f) = 1 /\ IsDigit(f[1])
    \/ Len(f) = 2 /\ DigitIn(f[1], 0..2) /\ IsDigit(f[2])
    \/ Len(f) = 2 /\ f[1] = "3" /\ DigitIn(f[2], 0..1)

MatchMonth(f) ==
    \/ f = Star
    \/ Len(f) = 1 /\ IsDigit(f[1])
    \/ Len(f) = 2 /\ DigitIn(f[1], 0..1) /\ IsDigit(f[2])

MatchWeekday(f) ==
    \/ f = Star
    \/ Len(f) = 1 /\ DigitIn(f[1], 0..6)

validateCronExpression(expr) ==
    /\ Len(expr) = 5
    /\ MatchMinute(expr[1])
    /\ MatchHour(expr[2])
    /\ MatchDay(expr[3])
    /\ MatchMonth(expr[4])
    /\ MatchWeekday(expr[5])

(***************************************************************************)
(* CronScheduler: this.tasks, this.isRunning, the timers cron.schedule     *)
(* has created, the firing in progress and the process they live in.       *)
(***************************************************************************)
Daily8 == <<<<"0">>, <<"8">>, Star, Star, Star>>

Bad99 == <<<<"9", "9">>, <<"8">>, Star, Star, Star>>

CronExpressions == {Daily8, Bad99}

(* options: {parallel, platforms} *)
Options == {[parallel |-> TRUE, platforms |-> << >>],
            [parallel |-> FALSE, platforms |-> <<"juejin", "bilibili">>]}

(* The entries given to addMultipleSchedules, each for a list of           *)
(* platforms; "none" is an entry without a name.                           *)
Schedules == [cronExpression : CronExpressions,
              options : {o \in Options : Len(o.platforms) > 0},
              name : {"main", "none"}]

ScheduleLists == {<<a>> : a \in Schedules}
                    \cup {<<a, b>> : a \in Schedules, b \in Schedules}

(* name || `task_${index}' *)
TaskName(schedule, index) ==
    IF schedule.name # "none" THEN schedule.name
    ELSE IF index = 0 THEN "task_0" ELSE "task_1"

TaskNames == {"main", "task_0", "task_1"}

(* Timers created by cron.schedule over the life of the process. *)
MaxTimers == 2

NoFiring == [timer |-> 0, pc |-> "none", i |-> 0, trace |-> << >>,
             options |-> [parallel |-> FALSE, platforms |-> << >>]]

(* tasks maps a name to the index of its timer in `timers', 0 for none. *)
NewScheduler == [tasks |-> [n \in TaskNames |-> 0], isRunning |-> FALSE,
                 timers |-> << >>, firing |-> NoFiring,
                 process |-> "running", caught |-> 0]

(* Firings of the daemon's timer that are followed. *)
MaxFirings == 2

(* SignInDaemon before main() of daemon.js has run; index.js has not been  *)
(* imported into the process.                                              *)
NewDaemon == [pc |-> "new", isRunning |-> FALSE, argv |-> << >>,
              loaded |-> FALSE, mainPass |-> "none", firings |-> 0,
              passes |-> 0]

TypeOK ==
    /\ daemon.pc \in {"new", "running", "exited"}
    /\ daemon.mainPass \in {"none", "running", "done", "cancelled"}
    /\ daemon.firings \in 0..MaxFirings
    /\ now \in StartClock..MaxClock
    /\ \A t \in Targets :
        files[t] = NoFile
        \/ (files[t].exists /\ files[t].data \in Contents \cup {Torn}
            /\ files[t].mtime \in 0..now)
    /\ last.op \in {"none", "hasValidSession", "getStorageStatePath",
                    "clearSession", "cleanupExpiredSessions",
                    "saveStorageState", "signInPlatform", "start",
                    "addMultipleSchedules", "stop", "getStatus", "firing",
                    "signal", "validateCronExpression", "isLoggedIn",
                    "login", "getAllSessions", "runNow",
                    "getNextExecutionTime", "daemon"}
    /\ sched.process \in {"running", "exited"}
    /\ sched.firing.pc \in {"none", "calling", "delay", "cancelled",
                            "abandoned"}
    /\ \A n \in TaskNames : sched.tasks[n] \in 0..Len(sched.timers)
    /\ \A t \in Targets :
        /\ run[t].pc \in {"idle", "Start", "Initialized", "AuthChecked",
                          "LoggingIn", "LoggedIn", "Authenticated",
                          "CheckedIn", "Teardown", "Closed"}
        /\ run[t].checked \in Outcomes \cup {"none"}
        /\ run[t].login \in Outcomes \cup {"none"}
        /\ run[t].checkin \in Outcomes \cup {"none"}
        /\ run[t].out \in Outcomes \cup {"none"}

(* Session files found at start-up: none, a fresh or an expired session,   *)
(* or a file that does not parse.                                          *)
Init ==
    /\ now = StartClock
    /\ files \in [Targets ->
          {NoFile, File(Garbage, StartClock),
           File(StorageState(<<"sid">>), StartClock),
           File(StorageState(<<"sid">>), StartClock - (TTL + 1))}]
    /\ last = NoCall
    /\ run = [t \in Targets |-> IdleRun]
    /\ orch = NewOrch(<< >>)
    /\ sched = NewScheduler
    /\ daemon = NewDaemon

(* Start-up of the store alone: any content at any age around the TTL. *)
InitStore ==
    /\ now = StartClock
    /\ files \in [Targets ->
          {NoFile} \cup {File(d, StartClock - a) :
                           d \in Contents, a \in {0, TTL, TTL + 1}}]
    /\ last = NoCall
    /\ run = [t \in Targets |-> IdleRun]
    /\ orch = NewOrch(<< >>)
    /\ sched = NewScheduler
    /\ daemon = NewDaemon

(* A day passes; a run lasts minutes, so no run spans the step. *)
Tick ==
    /\ Quiescent
    /\ now < MaxClock
    /\ now' = now + 1
    /\ last' = NoCall
    /\ UNCHANGED <<files, run, orch, sched, daemon>>

(***************************************************************************)
(* Store calls made outside a run (the --sessions / --clear-session        *)
(* commands of main, one command per process).                             *)
(***************************************************************************)
HasValidSession(t) ==
    /\ Quiescent
    /\ LET r == hasValidSession(files, t, now)
       IN  /\ files' = r.fs
           /\ last' = Call("hasValidSession", t, r.ret)
    /\ UNCHANGED <<now, run, orch, sched, daemon>>

GetStorageStatePath(t) ==
    /\ Quiescent
    /\ LET r == getStorageStatePath(files, t, now)
       IN  /\ files' = r.fs
           /\ last' = Call("getStorageStatePath", t, r.ret)
    /\ UNCHANGED <<now, run, orch, sched, daemon>>

ClearSession(t) ==
    /\ Quiescent
    /\ files' = clearSession(files, t)
    /\ last' = Call("clearSession", t, "undefined")
    /\ UNCHANGED <<now, run, orch, sched, daemon>>

CleanupExpiredSessions ==
    /\ Quiescent
    /\ files' = cleanupExpiredSessions(files, now)
    /\ last' = [Call("cleanupExpiredSessions", "none", "undefined")
                  EXCEPT !.count = cleanedCount(files, now)]
    /\ UNCHANGED <<now, run, orch, sched, daemon>>

GetAllSessions ==
    /\ Quiescent
    /\ last' = [Call("getAllSessions", "none", "array")
                  EXCEPT !.arg = <<getAllSessions(files, now)>>]
    /\ UNCHANGED <<files, now, run, orch, sched, daemon>>

SaveStorageState(t, blob) ==
    /\ Quiescent
    /\ files' = saveStorageState(files, t, blob, now)
    /\ last' = [Call("saveStorageState", t, "undefined")
                  EXCEPT !.blob = blob, !.write = "ok"]
    /\ UNCHANGED <<now, run, orch, sched, daemon>>

(***************************************************************************)
(* Target Runner steps.                                                    *)
(***************************************************************************)
(* signInPlatform: instantiate the platform class and call run(). *)
SignInPlatform(t) ==
    /\ ~InFlight(t)
    /\ run' = [run EXCEPT ![t] = [IdleRun EXCEPT !.pc = "Start",
                                     !.hadFile = existsSync(files, t)]]
    /\ last' = NoCall
    /\ UNCHANGED <<files, now, orch, sched, daemon>>

(* Start -> Initialized: acquire the handle, seeded from the store when a  *)
(* valid session exists; or the acquisition fails and the run ends.        *)
Acquire(t) ==
    /\ run[t].pc = "Start"
    /\ \/ LET r == getStorageStatePath(files, t, now)
          IN  /\ files' = r.fs
              /\ last' = Call("getStorageStatePath", t, r.ret)
              /\ run' = [run EXCEPT ![t].pc = "Initialized",
                                    ![t].handle = TRUE,
                                    ![t].seeded = (r.ret = "path")]
       \/ /\ run' = [run EXCEPT ![t].pc = "Teardown",
                                ![t].out = "raise",
                                ![t].message = "acquire failed"]
          /\ last' = NoCall
          /\ UNCHANGED files
    /\ UNCHANGED <<now, orch, sched, daemon>>

(* Initialized -> AuthChecked: Driver.checkLoggedIn(handle). *)
CheckLoggedIn(t) ==
    /\ run[t].pc = "Initialized"
    /\ \E o \in Outcomes :
        run' = [run EXCEPT ![t].pc = "AuthChecked", ![t].checked = o]
    /\ last' = NoCall
    /\ UNCHANGED <<files, now, orch, sched, daemon>>

(* AuthChecked -> Authenticated when logged in, else Driver.login is       *)
(* invoked; a raised check counts as not logged in.                        *)
AfterAuthCheckAlwaysLogin(t) ==
    /\ run[t].pc = "AuthChecked"
    /\ run' = [run EXCEPT ![t].pc = "LoggingIn",
                          ![t].loginCalls = @ + 1]
    /\ last' = NoCall
    /\ UNCHANGED <<files, now, orch, sched, daemon>>

AfterAuthCheck(t) ==
    /\ run[t].pc = "AuthChecked"
    /\ IF run[t].checked = "true"
       THEN run' = [run EXCEPT ![t].pc = "Authenticated"]
       ELSE run' = [run EXCEPT ![t].pc = "LoggingIn",
                               ![t].loginCalls = @ + 1]
    /\ last' = NoCall
    /\ UNCHANGED <<files, now, orch, sched, daemon>>

(* Driver.login returns: success leads to the save, anything else ends     *)
(* the run as a failure.                                                   *)
LoginReturnsIgnoreFailure(t) ==
    /\ run[t].pc = "LoggingIn"
    /\ \E o \in Outcomes :
        run' = [run EXCEPT ![t].login = o,
                   ![t].pc = IF o = "true" THEN "LoggedIn"
                             ELSE "Authenticated"]
    /\ last' = NoCall
    /\ UNCHANGED <<files, now, orch, sched, daemon>>

LoginReturns(t) ==
    /\ run[t].pc = "LoggingIn"
    /\ \E o \in Outcomes :
        run' = [run EXCEPT ![t].login = o,
                   ![t].pc = IF o = "true" THEN "LoggedIn" ELSE "Teardown",
                   ![t].out = IF o = "true" THEN @ ELSE o,
                   ![t].message = IF o = "true" THEN @ ELSE "login failed"]
    /\ last' = NoCall
    /\ UNCHANGED <<files, now, orch, sched, daemon>>

(* LoggedIn -> Authenticated: the session is saved right after login. *)
SaveAfterLoginSkipped(t) ==
    /\ run[t].pc = "LoggedIn"
    /\ run' = [run EXCEPT ![t].pc = "Authenticated"]
    /\ last' = NoCall
    /\ UNCHANGED <<files, now, orch, sched, daemon>>

SaveAfterLogin(t) ==
    /\ run[t].pc = "LoggedIn"
    /\ \E b \in Blobs :
        /\ files' = saveStorageState(files, t, b, now)
        /\ last' = [Call("saveStorageState", t, "undefined")
                      EXCEPT !.blob = b, !.write = "ok"]
    /\ run' = [run EXCEPT ![t].pc = "Authenticated", ![t].saves = @ + 1]
    /\ UNCHANGED <<now, orch, sched, daemon>>

(* The same step when the write may fail: whatever saveStorageState lets   *)
(* escape ends the run, otherwise the run goes on.                         *)
SaveAfterLoginIO(t) ==
    /\ run[t].pc = "LoggedIn"
    /\ \E b \in Blobs, w \in WriteOutcomes :
        LET r == saveStorageStateTry(files, t, b, now, w)
        IN  /\ files' = r.fs
            /\ last' = [Call("saveStorageState", t, r.ret)
                          EXCEPT !.blob = b, !.write = w]
            /\ run' = IF r.ret = "raise"
                      THEN [run EXCEPT ![t].pc = "Teardown",
                                       ![t].saves = @ + 1,
                                       ![t].out = "raise",
                                       ![t].message = "save raised"]
                      ELSE [run EXCEPT ![t].pc = "Authenticated",
                                       ![t].saves = @ + 1]
    /\ UNCHANGED <<now, orch, sched, daemon>>

(* Authenticated -> CheckedIn: Driver.performCheckIn(handle). *)
PerformCheckInRetry(t) ==
    /\ run[t].pc = "Authenticated"
    /\ \E o \in Outcomes :
        run' = IF o # "true" /\ run[t].checkInCalls = 0
               THEN [run EXCEPT ![t].checkin = o,
                                ![t].checkInCalls = @ + 1]
               ELSE [run EXCEPT ![t].pc = "Teardown",
                                ![t].checkin = o,
                                ![t].checkInCalls = @ + 1,
                                ![t].out = o,
                                ![t].message = IF o = "raise"
                                               THEN "check-in raised"
                                               ELSE "checked in"]
    /\ last' = NoCall
    /\ UNCHANGED <<files, now, orch, sched, daemon>>

PerformCheckIn(t) ==
    /\ run[t].pc = "Authenticated"
    /\ \E o \in Outcomes :
        run' = [run EXCEPT ![t].pc = "Teardown",
                           ![t].checkin = o,
                           ![t].checkInCalls = @ + 1,
                           ![t].out = o,
                           ![t].message = IF o = "raise"
                                          THEN "check-in raised"
                                          ELSE "checked in"]
    /\ last' = NoCall
    /\ UNCHANGED <<files, now, orch, sched, daemon>>

(* * -> Closed: release the handle on every exit path. *)
TeardownOnSuccessOnly(t) ==
    /\ run[t].pc = "Teardown"
    /\ run' = [run EXCEPT ![t].pc = "Closed",
                  ![t].teardowns = IF run[t].handle /\ run[t].out = "true"
                                   THEN @ + 1 ELSE @]
    /\ last' = NoCall
    /\ UNCHANGED <<files, now, orch, sched, daemon>>

Teardown(t) ==
    /\ run[t].pc = "Teardown"
    /\ run' = [run EXCEPT ![t].pc = "Closed",
                  ![t].teardowns = IF run[t].handle THEN @ + 1 ELSE @]
    /\ last' = NoCall
    /\ UNCHANGED <<files, now, orch, sched, daemon>>

(***************************************************************************)
(* AutoSignIn.signInPlatform, runAll, printResults and runSingle.          *)
(***************************************************************************)
(* What `await signInInstance.run()' can hand back to signInPlatform: the  *)
(* ways the Target Runner above can end, each with the session files it    *)
(* leaves behind.                                                          *)
RunEnds(fs, t, clock) ==
    LET seeded == getStorageStatePath(fs, t, clock).fs
        saved == {saveStorageState(seeded, t, b, clock) : b \in Blobs}
    IN  {[out |-> "raise", message |-> "acquire failed", fs |-> fs]}
        \cup {[out |-> o, message |-> "login failed", fs |-> seeded] :
                 o \in {"false", "raise"}}
        \cup {[out |-> o,
               message |-> IF o = "raise" THEN "check-in raised"
                           ELSE "checked in",
               fs |-> f] : o \in Outcomes, f \in {seeded} \cup saved}

(* A platform without a class throws before any run() is made. *)
NoClassEnd(fs) == [out |-> "raise", message |-> "no implementation class",
                   fs |-> fs]

(* The result signInPlatform returns when its try block ended with `out'   *)
(* and, for a throw, the message `msg'.                                    *)
signInPlatformResultUncaught(name, out, msg) ==
    IF out = "raise"
    THEN [platform |-> name, success |-> FALSE, message |-> "none",
          error |-> msg, threw |-> TRUE]
    ELSE [platform |-> name, success |-> (out = "true"),
          message |-> IF out = "true" THEN "sign-in succeeded"
                      ELSE "sign-in failed",
          error |-> "none", threw |-> FALSE]

signInPlatformResult(name, out, msg) ==
    IF out = "raise"
    THEN [platform |-> name, success |-> FALSE, message |-> "sign-in error",
          error |-> msg, threw |-> FALSE]
    ELSE [platform |-> name, success |-> (out = "true"),
          message |-> IF out = "true" THEN "sign-in succeeded"
                      ELSE "sign-in failed",
          error |-> "none", threw |-> FALSE]

(* A promise of signInPlatform that has not settled. *)
Pending(name) == [platform |-> name, success |-> FALSE,
                  message |-> "pending", error |-> "none", threw |-> FALSE]

Range(seq) == {seq[k] : k \in 1..Len(seq)}

StartedRun(t) == [IdleRun EXCEPT !.pc = "Start",
                                 !.hadFile = existsSync(files, t)]

(* signInPlatform(name) is entered: the instance is created and run()      *)
(* called, unless the platform has no class.                               *)
Entered(name) == IF name \in Targets
                 THEN [run EXCEPT ![name] = StartedRun(name)]
                 ELSE run

(* The ways the signInPlatform(name) in progress can finish. *)
Ends(name) == IF name \in Targets THEN RunEnds(files, name, now)
              ELSE {NoClassEnd(files)}

(* The instance signInPlatform created goes out of scope when it returns. *)
Dropped(name) == IF name \in Targets THEN [run EXCEPT ![name] = IdleRun]
                 ELSE run

Returns(name, e) == [Call("signInPlatform", name, e.out)
                       EXCEPT !.message = e.message]

(* printResults: the statistics of this.results. *)
printResults(results) ==
    LET successCount == Cardinality({k \in 1..Len(results) :
                                        results[k].success})
    IN  [total |-> Len(results), successCount |-> successCount,
         failCount |-> Len(results) - successCount, printed |-> TRUE]

(* runAll: the expired sessions are cleaned up first. *)
RunAllNoCleanup(parallel) ==
    /\ orch.pc = "idle"
    /\ orch.passes < MaxPasses
    /\ last' = NoCall
    /\ orch' = [orch EXCEPT !.pc = "cleaned", !.call = "runAll",
                   !.parallel = parallel, !.i = 0, !.promises = << >>,
                   !.done = << >>, !.housekept = FALSE, !.started = 0,
                   !.delays = 0, !.report = NoReport]
    /\ UNCHANGED <<files, now, run, sched, daemon>>

RunAll(parallel) ==
    /\ orch.pc = "idle"
    /\ orch.passes < MaxPasses
    /\ files' = cleanupExpiredSessions(files, now)
    /\ last' = [Call("cleanupExpiredSessions", "none", "undefined")
                  EXCEPT !.count = cleanedCount(files, now)]
    /\ orch' = [orch EXCEPT !.pc = "cleaned", !.call = "runAll",
                   !.parallel = parallel, !.i = 0, !.promises = << >>,
                   !.done = << >>, !.housekept = TRUE, !.started = 0,
                   !.delays = 0, !.report = NoReport]
    /\ UNCHANGED <<now, run, sched, daemon>>

(* The call returns. *)
Returned(o) == [o EXCEPT !.pc = "idle", !.passes = @ + 1]

(* The pass ends: statistics over this.results. *)
Finished(o, results) ==
    [Returned(o) EXCEPT !.results = results,
                        !.report = printResults(results)]

(* A throw of signInPlatform ends the call: nothing is printed. *)
Aborted(o) == Returned(o)

(* Parallel branch: signInPlatform is called for every platform at once;   *)
(* serial branch: for the first platform.                                  *)
Launch ==
    /\ orch.pc = "cleaned"
    /\ LET ps == orch.platforms
           n == Len(ps)
       IN  IF orch.parallel
           THEN /\ run' = [t \in Targets |->
                            IF t \in Range(ps) THEN StartedRun(t) ELSE run[t]]
                /\ orch' = [orch EXCEPT !.pc = "parallel", !.started = n,
                              !.promises = [k \in 1..n |->
                                  IF ps[k] \in Targets THEN Pending(ps[k])
                                  ELSE signInPlatformResult(ps[k],
                                          NoClassEnd(files).out,
                                          NoClassEnd(files).message)],
                              !.done = SelectSeq(ps,
                                          LAMBDA q : q \notin Targets)]
           ELSE IF n = 0
           THEN /\ orch' = Finished(orch, orch.results)
                /\ UNCHANGED run
           ELSE /\ run' = Entered(ps[1])
                /\ orch' = [orch EXCEPT !.pc = "serial", !.i = 1,
                                        !.started = 1]
    /\ last' = NoCall
    /\ UNCHANGED <<files, now, sched, daemon>>

(* A signInPlatform of the parallel branch returns: its promise settles. *)
Resolve(t) ==
    /\ orch.pc = "parallel"
    /\ run[t].pc = "Start"
    /\ \E e \in Ends(t), k \in 1..Len(orch.platforms) :
        /\ orch.platforms[k] = t
        /\ files' = e.fs
        /\ last' = Returns(t, e)
        /\ orch' = [orch EXCEPT
                      !.promises[k] = signInPlatformResult(t, e.out,
                                                           e.message),
                      !.done = Append(@, t)]
    /\ run' = Dropped(t)
    /\ UNCHANGED <<now, sched, daemon>>

(* Promise.all settles when every promise it was given has settled. *)
AllSettledAny(o) ==
    \E k \in 1..Len(o.promises) : o.promises[k] # Pending(o.platforms[k])

AllSettled(o) ==
    \A k \in 1..Len(o.promises) : o.promises[k] # Pending(o.platforms[k])

(* Promise.all: this.results is the array of results, by position. *)
ParallelJoinByCompletion ==
    /\ orch.pc = "parallel"
    /\ AllSettled(orch)
    /\ orch' = Finished(orch, [k \in 1..Len(orch.done) |->
                 orch.promises[CHOOSE j \in 1..Len(orch.platforms) :
                                  orch.platforms[j] = orch.done[k]]])
    /\ last' = NoCall
    /\ UNCHANGED <<files, now, run, sched, daemon>>

ParallelJoin ==
    /\ orch.pc = "parallel"
    /\ AllSettled(orch)
    /\ orch' = IF \E k \in 1..Len(orch.promises) : orch.promises[k].threw
               THEN Aborted(orch)
               ELSE Finished(orch, orch.promises)
    /\ last' = NoCall
    /\ UNCHANGED <<files, now, run, sched, daemon>>

(* The platform being run is not the last one of this.platforms. *)
DelayFollowsAlways(o) == TRUE

DelayFollows(o) == o.i < Len(o.platforms)

(* Serial branch: the signInPlatform of the current platform returns, its  *)
(* result is pushed onto this.results, and a delay follows unless the      *)
(* platform is the last one.                                               *)
SerialCollectStopOnFailure ==
    /\ orch.pc = "serial"
    /\ \E e \in Ends(orch.platforms[orch.i]) :
        LET name == orch.platforms[orch.i]
            r == signInPlatformResult(name, e.out, e.message)
            results == Append(orch.results, r)
        IN  /\ files' = e.fs
            /\ last' = Returns(name, e)
            /\ orch' = IF r.success /\ DelayFollows(orch)
                       THEN [orch EXCEPT !.pc = "delay", !.results = results]
                       ELSE Finished(orch, results)
    /\ run' = Dropped(orch.platforms[orch.i])
    /\ UNCHANGED <<now, sched, daemon>>

SerialCollect ==
    /\ orch.pc = "serial"
    /\ \E e \in Ends(orch.platforms[orch.i]) :
        LET name == orch.platforms[orch.i]
            r == signInPlatformResult(name, e.out, e.message)
            results == Append(orch.results, r)
        IN  /\ files' = e.fs
            /\ last' = Returns(name, e)
            /\ orch' = IF r.threw THEN Aborted(orch)
                       ELSE IF DelayFollows(orch)
                       THEN [orch EXCEPT !.pc = "delay", !.results = results]
                       ELSE Finished(orch, results)
    /\ run' = Dropped(orch.platforms[orch.i])
    /\ UNCHANGED <<now, sched, daemon>>

(* The 3 seconds are over: signInPlatform is called for the next platform. *)
DelayElapsed ==
    /\ orch.pc = "delay"
    /\ run' = Entered(orch.platforms[orch.i + 1])
    /\ orch' = [orch EXCEPT !.pc = "serial", !.i = @ + 1,
                            !.started = @ + 1, !.delays = @ + 1]
    /\ last' = NoCall
    /\ UNCHANGED <<files, now, sched, daemon>>

(* runSingle: look the platform up among the enabled ones and run it. *)
RunSingleReportsNotFound(name) ==
    /\ orch.pc = "idle"
    /\ orch.passes < MaxPasses
    /\ LET o == [orch EXCEPT !.call = "runSingle", !.parallel = FALSE,
                    !.i = 0, !.promises = << >>, !.done = << >>,
                    !.housekept = FALSE, !.started = 0, !.delays = 0,
                    !.report = NoReport]
       IN  IF name \in Range(orch.platforms)
           THEN /\ run' = Entered(name)
                /\ orch' = [o EXCEPT !.pc = "single", !.started = 1,
                              !.i = CHOOSE k \in 1..Len(orch.platforms) :
                                        orch.platforms[k] = name]
           ELSE /\ orch' = Finished(o,
                              <<[platform |-> name, success |-> FALSE,
                                 message |-> "sign-in error",
                                 error |-> "not found or not enabled",
                                 threw |-> FALSE]>>)
                /\ UNCHANGED run
    /\ last' = NoCall
    /\ UNCHANGED <<files, now, sched, daemon>>

RunSingle(name) ==
    /\ orch.pc = "idle"
    /\ orch.passes < MaxPasses
    /\ LET o == [orch EXCEPT !.call = "runSingle", !.parallel = FALSE,
                    !.i = 0, !.promises = << >>, !.done = << >>,
                    !.housekept = FALSE, !.started = 0, !.delays = 0,
                    !.report = NoReport]
       IN  IF name \in Range(orch.platforms)
           THEN /\ run' = Entered(name)
                /\ orch' = [o EXCEPT !.pc = "single", !.started = 1,
                              !.i = CHOOSE k \in 1..Len(orch.platforms) :
                                        orch.platforms[k] = name]
           ELSE /\ orch' = Returned(o)
                /\ UNCHANGED run
    /\ last' = NoCall
    /\ UNCHANGED <<files, now, sched, daemon>>

SingleCollect ==
    /\ orch.pc = "single"
    /\ \E e \in Ends(orch.platforms[orch.i]) :
        LET name == orch.platforms[orch.i]
            r == signInPlatformResult(name, e.out, e.message)
        IN  /\ files' = e.fs
            /\ last' = Returns(name, e)
            /\ orch' = IF r.threw THEN Aborted(orch)
                       ELSE Finished(orch, <<r>>)
    /\ run' = Dropped(orch.platforms[orch.i])
    /\ UNCHANGED <<now, sched, daemon>>

(* One AutoSignIn instance and the calls made on it, over a session        *)
(* directory holding an expired session of every target.                   *)
InitOrch ==
    /\ now = StartClock
    /\ files = [t \in Targets |->
                   File(StorageState(<<"sid">>), StartClock - (TTL + 1))]
    /\ last = NoCall
    /\ run = [t \in Targets |-> IdleRun]
    /\ orch \in {NewOrch(ps) : ps \in PlatformConfigs}
    /\ sched = NewScheduler
    /\ daemon = NewDaemon

NextOrch ==
    \/ \E parallel \in BOOLEAN : RunAll(parallel)
    \/ Launch
    \/ \E t \in Targets : Resolve(t)
    \/ ParallelJoin
    \/ SerialCollect
    \/ DelayElapsed
    \/ \E name \in PlatformNames : RunSingle(name)
    \/ SingleCollect

OrchSpec == InitOrch /\ [][NextOrch]_vars

(***************************************************************************)
(* CronScheduler.start, stop, getStatus, addMultipleSchedules, the cron    *)
(* callbacks and the signal handlers.                                      *)
(***************************************************************************)
(* cron.schedule(...); this.tasks.set(name, task); task.start() *)
Register(s, name, options, via) ==
    [s EXCEPT !.timers = Append(@, [name |-> name, via |-> via,
                                    options |-> options, started |-> TRUE]),
              !.tasks[name] = Len(s.timers) + 1]

Registered(s) == {n \in TaskNames : s.tasks[n] # 0}

Started(s) == {k \in 1..Len(s.timers) : s.timers[k].started}

start(s, cronExpression, options) ==
    IF s.isRunning THEN [sched |-> s, ret |-> "already running"]
    ELSE IF ~cronValidate(cronExpression)
    THEN [sched |-> s, ret |-> "invalid"]
    ELSE [sched |-> [Register(s, "main", options, "start")
                        EXCEPT !.isRunning = TRUE],
          ret |-> "started"]

Start(cronExpression, options) ==
    /\ sched.process = "running"
    /\ Len(sched.timers) < MaxTimers
    /\ LET r == start(sched, cronExpression, options)
       IN  /\ sched' = r.sched
           /\ last' = [Call("start", "main", r.ret) EXCEPT
                         !.arg = <<[cronExpression |-> cronExpression,
                                    options |-> options, name |-> "main"]>>]
    /\ UNCHANGED <<files, now, run, orch, daemon>>

(* schedules.forEach: entries from position `index' (from 0) on. *)
RECURSIVE addEach(_, _, _)
addEach(s, schedules, index) ==
    IF index >= Len(schedules) THEN s
    ELSE LET schedule == schedules[index + 1]
         IN  addEach(IF cronValidate(schedule.cronExpression)
                     THEN Register(s, TaskName(schedule, index),
                                   schedule.options, "addMultipleSchedules")
                     ELSE s,
                     schedules, index + 1)

ValidOf(schedules) == {k \in 1..Len(schedules) :
                          cronValidate(schedules[k].cronExpression)}

AddMultipleSchedules(schedules) ==
    /\ sched.process = "running"
    /\ Len(sched.timers) + Cardinality(ValidOf(schedules)) <= MaxTimers
    /\ sched' = addEach(sched, schedules, 0)
    /\ last' = [Call("addMultipleSchedules", "none", "undefined") EXCEPT
                  !.arg = schedules,
                  !.count = Cardinality(ValidOf(schedules))]
    /\ UNCHANGED <<files, now, run, orch, daemon>>

(* stop: every task of this.tasks is stopped and the map cleared, unless   *)
(* isRunning is false.                                                     *)
stopKeepsFlag(s) ==
    IF ~s.isRunning THEN s
    ELSE [s EXCEPT !.timers = [k \in 1..Len(s.timers) |->
                                  IF \E n \in TaskNames : s.tasks[n] = k
                                  THEN [s.timers[k] EXCEPT !.started = FALSE]
                                  ELSE s.timers[k]],
                   !.tasks = [n \in TaskNames |-> 0]]

stop(s) ==
    IF ~s.isRunning THEN s
    ELSE [s EXCEPT !.timers = [k \in 1..Len(s.timers) |->
                                  IF \E n \in TaskNames : s.tasks[n] = k
                                  THEN [s.timers[k] EXCEPT !.started = FALSE]
                                  ELSE s.timers[k]],
                   !.tasks = [n \in TaskNames |-> 0],
                   !.isRunning = FALSE]

Stop ==
    /\ sched.process = "running"
    /\ sched' = stop(sched)
    /\ last' = Call("stop", "none", "undefined")
    /\ UNCHANGED <<files, now, run, orch, daemon>>

getStatus(s) == [isRunning |-> s.isRunning,
                 taskCount |-> Cardinality(Registered(s)),
                 tasks |-> Registered(s)]

GetStatus ==
    /\ sched.process = "running"
    /\ last' = [Call("getStatus", "none", "status") EXCEPT
                  !.arg = <<getStatus(sched)>>]
    /\ UNCHANGED <<files, now, run, orch, sched, daemon>>

(* What a firing does next: the calls it makes are kept in its trace. *)
RunSingleCall(name) == [op |-> "runSingle", arg |-> name]

RunAllCall(parallel) ==
    [op |-> "runAll", arg |-> IF parallel THEN "parallel" ELSE "serial"]

DelayCall == [op |-> "delay", arg |-> "3000"]

FirstCall(options) ==
    IF Len(options.platforms) > 0 THEN RunSingleCall(options.platforms[1])
    ELSE RunAllCall(options.parallel)

(* platforms.indexOf(platformName), from 0 *)
indexOf(platforms, name) ==
    (CHOOSE k \in 1..Len(platforms) :
        /\ platforms[k] = name
        /\ \A j \in 1..(k - 1) : platforms[j] # name) - 1

(* The callback of start waits 3 s between platforms; runNow, which the    *)
(* callbacks of addMultipleSchedules call, does not.                       *)
DelayAfter(timer, i) ==
    /\ timer.via = "start"
    /\ indexOf(timer.options.platforms, timer.options.platforms[i])
          < Len(timer.options.platforms) - 1

(* A started timer fires: a new AutoSignIn is made and the first call on   *)
(* it begun.                                                               *)
Fire(k) ==
    /\ sched.process = "running"
    /\ sched.firing = NoFiring
    /\ k \in Started(sched)
    /\ sched' = [sched EXCEPT !.firing =
                    [timer |-> k, pc |-> "calling", i |-> 1,
                     trace |-> <<FirstCall(sched.timers[k].options)>>,
                     options |-> sched.timers[k].options]]
    /\ last' = NoCall
    /\ UNCHANGED <<files, now, run, orch, daemon>>

(* runNow: a manual pass, made like the firing of a timer of               *)
(* addMultipleSchedules but belonging to no timer (timer 0).               *)
RunNowStopsTasks(options) ==
    /\ sched.process = "running"
    /\ sched.firing = NoFiring
    /\ sched' = [stop(sched) EXCEPT !.firing =
                    [timer |-> 0, pc |-> "calling", i |-> 1,
                     trace |-> <<FirstCall(options)>>,
                     options |-> options]]
    /\ last' = NoCall
    /\ UNCHANGED <<files, now, run, orch, daemon>>

RunNow(options) ==
    /\ sched.process = "running"
    /\ sched.firing = NoFiring
    /\ sched' = [sched EXCEPT !.firing =
                    [timer |-> 0, pc |-> "calling", i |-> 1,
                     trace |-> <<FirstCall(options)>>,
                     options |-> options]]
    /\ last' = NoCall
    /\ UNCHANGED <<files, now, run, orch, daemon>>

(* The timer whose callback is running; for runNow, no timer. *)
FiringTimer(s) ==
    IF s.firing.timer = 0
    THEN [name |-> "none", via |-> "runNow", options |-> s.firing.options,
          started |-> FALSE]
    ELSE s.timers[s.firing.timer]

(* The catch of the callback: the failure is logged. *)
CatchMissing(s) == [s EXCEPT !.firing = NoFiring, !.process = "exited"]

Catch(s) == [s EXCEPT !.firing = NoFiring,
                      !.caught = IF s.firing.timer = 0 THEN @
                                 ELSE s.firing.timer]

FiringEnds(s) == [s EXCEPT !.firing = NoFiring]

FiringResult(ret) ==
    [Call(IF sched.firing.timer = 0 THEN "runNow" ELSE "firing",
          FiringTimer(sched).name, ret) EXCEPT
        !.count = sched.firing.timer, !.arg = sched.firing.trace]

(* The runSingle or runAll in flight returns or throws. *)
CallEnds(outcome) ==
    /\ sched.process = "running"
    /\ sched.firing.pc = "calling"
    /\ LET f == sched.firing
           timer == FiringTimer(sched)
           platforms == timer.options.platforms
       IN  IF outcome = "raise"
           THEN /\ sched' = Catch(sched)
                /\ last' = FiringResult("raise")
           ELSE IF Len(platforms) = 0
           THEN /\ sched' = FiringEnds(sched)
                /\ last' = FiringResult("done")
           ELSE IF DelayAfter(timer, f.i)
           THEN /\ sched' = [sched EXCEPT !.firing.pc = "delay",
                               !.firing.trace = Append(@, DelayCall)]
                /\ last' = NoCall
           ELSE IF f.i < Len(platforms)
           THEN /\ sched' = [sched EXCEPT !.firing.i = f.i + 1,
                               !.firing.trace =
                                  Append(@, RunSingleCall(platforms[f.i + 1]))]
                /\ last' = NoCall
           ELSE /\ sched' = FiringEnds(sched)
                /\ last' = FiringResult("done")
    /\ UNCHANGED <<files, now, run, orch, daemon>>

(* The 3 seconds are over: the loop goes on to the next platform. *)
DelayOver ==
    /\ sched.process = "running"
    /\ sched.firing.pc = "delay"
    /\ LET f == sched.firing
           platforms == FiringTimer(sched).options.platforms
       IN  IF f.i < Len(platforms)
           THEN /\ sched' = [sched EXCEPT !.firing.pc = "calling",
                               !.firing.i = f.i + 1,
                               !.firing.trace =
                                  Append(@, RunSingleCall(platforms[f.i + 1]))]
                /\ last' = NoCall
           ELSE /\ sched' = FiringEnds(sched)
                /\ last' = FiringResult("done")
    /\ UNCHANGED <<files, now, run, orch, daemon>>

(* SIGINT or SIGTERM: the handler stops the scheduler and calls            *)
(* process.exit(0); what the firing in progress was doing is lost.         *)
Signal ==
    /\ sched.process = "running"
    /\ sched' = [stop(sched) EXCEPT
                    !.process = "exited",
                    !.firing.pc = IF @ = "calling" THEN "cancelled"
                                  ELSE IF @ = "delay" THEN "abandoned"
                                  ELSE @]
    /\ last' = Call("signal", "none", "exit")
    /\ UNCHANGED <<files, now, run, orch, daemon>>

InitSched ==
    /\ now = StartClock
    /\ files = EmptyDir
    /\ last = NoCall
    /\ run = [t \in Targets |-> IdleRun]
    /\ orch = NewOrch(<< >>)
    /\ sched = NewScheduler
    /\ daemon = NewDaemon

NextSched ==
    \/ \E e \in CronExpressions, o \in Options : Start(e, o)
    \/ \E schedules \in ScheduleLists : AddMultipleSchedules(schedules)
    \/ Stop
    \/ GetStatus
    \/ \E k \in 1..MaxTimers : Fire(k)
    \/ \E o \in Options : RunNow(o)
    \/ \E outcome \in {"return", "raise"} : CallEnds(outcome)
    \/ DelayOver
    \/ Signal

SchedSpec == InitSched /\ [][NextSched]_vars

(* Expressions given to ScheduleConfig.validateCronExpression. *)
Minutes == {<<"0">>, <<"5", "9">>, <<"9", "9">>}

Hours == {<<"8">>, <<"2", "4">>, <<"*", "/", "6">>}

Days == {Star, <<"0">>, <<"3", "1">>}

Months == {Star, <<"0">>, <<"1", "2">>, <<"1", "3">>}

Weekdays == {Star, <<"7">>, <<"1", "-", "5">>, <<"1", ",", "3", ",", "5">>}

TestExpressions ==
    {<<mi, h, d, mo, w>> : mi \in Minutes, h \in Hours, d \in Days,
                           mo \in Months, w \in Weekdays}
        \cup {<<Star, Star, Star, Star>>,
              <<Star, Star, Star, Star, Star, Star>>,
              <<<<"0">>, << >>, <<"8">>, Star, Star, Star>>}

ValidateCronExpression(expr) ==
    /\ last' = [Call("validateCronExpression", "none",
                     IF validateCronExpression(expr) THEN "true"
                     ELSE "false")
                  EXCEPT !.arg = <<expr>>]
    /\ UNCHANGED <<files, now, run, orch, sched, daemon>>

(* Expressions that fire once a day, given to getNextExecutionTime:        *)
(* '0 8 * * *', '0 9 * * *', '30 9 * * *', '0 20 * * *'.                   *)
DailyExpressions ==
    {Daily8,
     <<<<"0">>, <<"9">>, Star, Star, Star>>,
     <<<<"3", "0">>, <<"9">>, Star, Star, Star>>,
     <<<<"0">>, <<"2", "0">>, Star, Star, Star>>}

(* Times of day at which getNextExecutionTime is called. *)
ClockTimes == [hour : 0..23, minute : {0, 30}]

(* An instant: days from today, hour and minute; or no instant. *)
Instant(day, hour, minute) ==
    [computed |-> TRUE, day |-> day, hour |-> hour, minute |-> minute]

NoInstant == [computed |-> FALSE, day |-> 0, hour |-> 0, minute |-> 0]

(* The next instant, after `clock', at which a daily expression fires. *)
NextFiring(expr, clock) ==
    LET h == NumberVal(expr[2])
        m == NumberVal(expr[1])
    IN  IF clock.hour < h \/ (clock.hour = h /\ clock.minute < m)
        THEN Instant(0, h, m)
        ELSE Instant(1, h, m)

(* getNextExecutionTime: cron.schedule throws on an expression it does not *)
(* accept; otherwise the answer is tomorrow, setHours(8, 0, 0, 0).         *)
getNextExecutionTime(expr, clock) ==
    IF ~cronValidate(expr) THEN NoInstant ELSE Instant(1, 8, 0)

GetNextExecutionTime(expr, clock) ==
    /\ last' = [Call("getNextExecutionTime", "none",
                     IF getNextExecutionTime(expr, clock).computed
                     THEN "time" ELSE "cannot compute")
                  EXCEPT !.arg = <<expr, clock,
                                   getNextExecutionTime(expr, clock)>>]
    /\ UNCHANGED <<files, now, run, orch, sched, daemon>>

NextCron ==
    \/ \E expr \in TestExpressions : ValidateCronExpression(expr)
    \/ \E expr \in DailyExpressions \cup {Bad99}, clock \in ClockTimes :
          GetNextExecutionTime(expr, clock)

CronSpec == InitSched /\ [][NextCron]_vars

(***************************************************************************)
(* Platform drivers: isLoggedIn and login of JuejinSignIn and              *)
(* BilibiliSignIn.  The page the browser shows and the results of the      *)
(* BaseSignIn helpers (openLoginModal, safeInput, safeClick) are inputs.   *)
(***************************************************************************)
(* The files that hold a driver: platforms/juejin.js, the juejin driver    *)
(* that reads its selectors from the configuration, platforms/bilibili.js. *)
Drivers == {"juejin", "juejin.selectors", "bilibili"}

(* Texts of the login button, as the words they contain; "denglu" stands   *)
(* for the two characters the drivers look for.                            *)
Texts == {[null |-> TRUE, words |-> << >>]}
            \cup {[null |-> FALSE, words |-> w] :
                    w \in {<< >>, <<"zhuce">>, <<"denglu">>, <<"Login">>,
                           <<"liji", "denglu">>}}

(* Where a call on the page throws, if anywhere. *)
Faults == {"none", "waitForTimeout", "$", "textContent"}

Pages == [userAvatar : BOOLEAN, userInfo : BOOLEAN, loginButton : BOOLEAN,
          loginText : Texts, fault : Faults]

(* text.includes(word) *)
includes(text, word) == \E k \in 1..Len(text.words) : text.words[k] = word

(* `loginText && ...': null and the empty string are falsy. *)
Truthy(text) == ~text.null /\ Len(text.words) > 0

LoginWords(d) == IF d = "bilibili" THEN {"denglu"} ELSE {"denglu", "Login"}

(* The try block of isLoggedIn: "throw" when a call on the page throws.    *)
(* The driver with configured selectors never declares userInfo, so        *)
(* `userAvatar || userInfo' throws a ReferenceError when userAvatar is     *)
(* null.                                                                   *)
isLoggedInTry(d, page) ==
    IF page.fault \in {"waitForTimeout", "$"} THEN "throw"
    ELSE IF page.loginButton /\ page.fault = "textContent" THEN "throw"
    ELSE IF /\ page.loginButton
            /\ Truthy(page.loginText)
            /\ \E w \in LoginWords(d) : includes(page.loginText, w)
        THEN "false"
    ELSE IF d = "juejin.selectors"
        THEN (IF page.userAvatar THEN "true" ELSE "throw")
    ELSE IF page.userAvatar \/ page.userInfo THEN "true"
    ELSE "false"

isLoggedInUncaught(d, page) ==
    IF isLoggedInTry(d, page) = "throw" THEN "raise"
    ELSE isLoggedInTry(d, page)

(* isLoggedIn: the catch logs a warning and returns false. *)
isLoggedIn(d, page) ==
    IF isLoggedInTry(d, page) = "throw" THEN "false"
    ELSE isLoggedInTry(d, page)

(* The login drivers the claims cite: those that open the login modal. *)
LoginDrivers == {"juejin.selectors", "bilibili"}

(* Result of a helper: it returns true or false, or throws. *)
StepResults == {"true", "false", "throw"}

(* An element looked up with page.$: absent, present, or the call throws. *)
Lookups == {"absent", "present", "throw"}

(* Pages shown after the form was submitted. *)
PagesAfterSubmit ==
    {[userAvatar |-> TRUE, userInfo |-> TRUE, loginButton |-> FALSE,
      loginText |-> [null |-> TRUE, words |-> << >>], fault |-> "none"],
     [userAvatar |-> TRUE, userInfo |-> FALSE, loginButton |-> TRUE,
      loginText |-> [null |-> FALSE, words |-> <<"denglu">>],
      fault |-> "none"],
     [userAvatar |-> FALSE, userInfo |-> FALSE, loginButton |-> FALSE,
      loginText |-> [null |-> TRUE, words |-> << >>], fault |-> "none"],
     [userAvatar |-> TRUE, userInfo |-> TRUE, loginButton |-> FALSE,
      loginText |-> [null |-> TRUE, words |-> << >>], fault |-> "$"]}

PagesAfterSubmit_LoggedIn ==
    [userAvatar |-> TRUE, userInfo |-> TRUE, loginButton |-> FALSE,
     loginText |-> [null |-> TRUE, words |-> << >>], fault |-> "none"]

Forms == [openLoginModal : StepResults, passwordTab : Lookups,
          usernameInput : StepResults, passwordInput : StepResults,
          submitButton : StepResults, captcha : Lookups,
          page : PagesAfterSubmit, errorMsg : Lookups]

(* The try block of login.  Only the bilibili driver looks for a captcha. *)
loginTry(d, form) ==
    IF form.openLoginModal # "true"
        THEN (IF form.openLoginModal = "throw" THEN "throw" ELSE "false")
    ELSE IF form.passwordTab = "throw" THEN "throw"
    ELSE IF form.usernameInput # "true"
        THEN (IF form.usernameInput = "throw" THEN "throw" ELSE "false")
    ELSE IF form.passwordInput # "true"
        THEN (IF form.passwordInput = "throw" THEN "throw" ELSE "false")
    ELSE IF form.submitButton # "true"
        THEN (IF form.submitButton = "throw" THEN "throw" ELSE "false")
    ELSE IF d = "bilibili" /\ form.captcha = "throw" THEN "throw"
    ELSE IF isLoggedIn(d, form.page) = "true" THEN "true"
    ELSE IF form.errorMsg = "throw" THEN "throw"
    ELSE "false"

loginWithoutCheck(d, form) ==
    IF loginTry(d, [form EXCEPT !.page = PagesAfterSubmit_LoggedIn])
          = "throw"
    THEN "false"
    ELSE loginTry(d, [form EXCEPT !.page = PagesAfterSubmit_LoggedIn])

(* login: the catch logs the error and returns false. *)
login(d, form) ==
    IF loginTry(d, form) = "throw" THEN "false" ELSE loginTry(d, form)

(* A driver method on a page or a form that is about to be called. *)
InitDriver ==
    /\ now = StartClock
    /\ files = EmptyDir
    /\ \E d \in Drivers :
          \/ \E page \in Pages :
                last = [NoCall EXCEPT !.target = d, !.message = "page",
                                      !.arg = <<page>>]
          \/ /\ d \in LoginDrivers
             /\ \E form \in Forms :
                   last = [NoCall EXCEPT !.target = d, !.message = "form",
                                         !.arg = <<form>>]
    /\ run = [t \in Targets |-> IdleRun]
    /\ orch = NewOrch(<< >>)
    /\ sched = NewScheduler
    /\ daemon = NewDaemon

IsLoggedIn ==
    /\ last.op = "none"
    /\ last.message = "page"
    /\ last' = [last EXCEPT !.op = "isLoggedIn",
                            !.ret = isLoggedIn(last.target, last.arg[1])]
    /\ UNCHANGED <<files, now, run, orch, sched, daemon>>

Login ==
    /\ last.op = "none"
    /\ last.message = "form"
    /\ last' = [last EXCEPT !.op = "login",
                            !.ret = login(last.target, last.arg[1])]
    /\ UNCHANGED <<files, now, run, orch, sched, daemon>>

NextDriver == IsLoggedIn \/ Login

DriverSpec == InitDriver /\ [][NextDriver]_vars

(***************************************************************************)
(* daemon.js: main() parses the command line, SignInDaemon.start starts    *)
(* the scheduler; the first firing imports index.js into the process.      *)
(***************************************************************************)
(* process.argv.slice(2) of `node src/daemon.js ...' *)
Argvs == {<< >>,
          <<"--parallel">>,
          <<"-p">>,
          <<"--time", "0 8 * * *">>,
          <<"-t", "99 8 * * *">>,
          <<"--time">>,
          <<"--time", "0 8 * * *", "--parallel">>,
          <<"--platforms", "juejin,bilibili">>,
          <<"--parallel", "--platforms", "juejin,bilibili">>}

(* The expression an argument of --time stands for. *)
CronOf(arg) == IF arg = "0 8 * * *" THEN Daily8 ELSE Bad99

(* args[i + 1].split(',').map((p) => p.trim()) *)
PlatformsOf(arg) == IF arg = "juejin,bilibili" THEN <<"juejin", "bilibili">>
                    ELSE <<arg>>

DefaultOptions == [cronExpression |-> Daily8, parallel |-> FALSE,
                   platforms |-> << >>]

(* parseArgs: the loop over args from position i (from 1). *)
RECURSIVE parseArgs(_, _, _)
parseArgs(args, i, options) ==
    IF i > Len(args) THEN options
    ELSE IF args[i] \in {"--time", "-t"}
        THEN (IF i + 1 <= Len(args)
              THEN parseArgs(args, i + 2,
                      [options EXCEPT !.cronExpression = CronOf(args[i + 1])])
              ELSE parseArgs(args, i + 1, options))
    ELSE IF args[i] \in {"--parallel", "-p"}
        THEN parseArgs(args, i + 1, [options EXCEPT !.parallel = TRUE])
    ELSE IF args[i] = "--platforms"
        THEN (IF i + 1 <= Len(args)
              THEN parseArgs(args, i + 2,
                      [options EXCEPT !.platforms = PlatformsOf(args[i + 1])])
              ELSE parseArgs(args, i + 1, options))
    ELSE parseArgs(args, i + 1, options)

(* main() of index.js, called when the module is evaluated: the pass it    *)
(* starts with the command line of the process, if any.                    *)
indexMain(args) ==
    IF Len(args) = 0 THEN "serial"
    ELSE IF args[1] \in {"--parallel", "-p"} THEN "parallel"
    ELSE "none"

(* main() of daemon.js: new SignInDaemon().start(parseArgs()). *)
DaemonMain(args) ==
    /\ daemon.pc = "new"
    /\ LET options == parseArgs(args, 1, DefaultOptions)
           r == start(sched, options.cronExpression,
                      [parallel |-> options.parallel,
                       platforms |-> options.platforms])
       IN  /\ sched' = r.sched
           /\ last' = [Call("daemon", "main", r.ret) EXCEPT
                         !.arg = <<options>>]
    /\ daemon' = [daemon EXCEPT !.pc = "running", !.isRunning = TRUE,
                                !.argv = args]
    /\ UNCHANGED <<files, now, run, orch>>

(* The daemon's timer fires: `await import('../index.js')' evaluates the   *)
(* module the first time, which calls its main(); then the callback makes  *)
(* its own AutoSignIn and begins its first call.                           *)
DaemonFire(k) ==
    /\ daemon.pc = "running"
    /\ daemon.firings < MaxFirings
    /\ sched.process = "running"
    /\ sched.firing = NoFiring
    /\ k \in Started(sched)
    /\ sched' = [sched EXCEPT !.firing =
                    [timer |-> k, pc |-> "calling", i |-> 1,
                     trace |-> <<FirstCall(sched.timers[k].options)>>,
                     options |-> sched.timers[k].options]]
    /\ LET byImport == ~daemon.loaded /\ indexMain(daemon.argv) # "none"
           byCallback == Len(sched.timers[k].options.platforms) = 0
       IN  daemon' = [daemon EXCEPT
                        !.firings = @ + 1,
                        !.loaded = TRUE,
                        !.mainPass = IF byImport THEN "running" ELSE @,
                        !.passes = @ + (IF byImport THEN 1 ELSE 0)
                                     + (IF byCallback THEN 1 ELSE 0)]
    /\ last' = NoCall
    /\ UNCHANGED <<files, now, run, orch>>

(* The runAll begun by main() of index.js returns, or throws and main's    *)
(* catch calls process.exit(1).                                            *)
MainPassEnds(outcome) ==
    /\ daemon.pc = "running"
    /\ daemon.mainPass = "running"
    /\ IF outcome = "raise"
       THEN /\ daemon' = [daemon EXCEPT !.mainPass = "done", !.pc = "exited"]
            /\ sched' = [sched EXCEPT
                           !.process = "exited",
                           !.firing.pc = IF @ = "calling" THEN "cancelled"
                                         ELSE IF @ = "delay" THEN "abandoned"
                                         ELSE @]
       ELSE /\ daemon' = [daemon EXCEPT !.mainPass = "done"]
            /\ UNCHANGED sched
    /\ last' = NoCall
    /\ UNCHANGED <<files, now, run, orch>>

(* SIGINT or SIGTERM: SignInDaemon.stop. *)
DaemonSignal ==
    /\ daemon.pc = "running"
    /\ IF ~daemon.isRunning
       THEN UNCHANGED <<sched, daemon>>
       ELSE /\ sched' = [stop(sched) EXCEPT
                           !.process = "exited",
                           !.firing.pc = IF @ = "calling" THEN "cancelled"
                                         ELSE IF @ = "delay" THEN "abandoned"
                                         ELSE @]
            /\ daemon' = [daemon EXCEPT
                            !.isRunning = FALSE, !.pc = "exited",
                            !.mainPass = IF @ = "running" THEN "cancelled"
                                         ELSE @]
    /\ last' = Call("signal", "none", "exit")
    /\ UNCHANGED <<files, now, run, orch>>

NextDaemon ==
    \/ \E args \in Argvs : DaemonMain(args)
    \/ \E k \in 1..MaxTimers : DaemonFire(k)
    \/ \E outcome \in {"return", "raise"} : MainPassEnds(outcome)
    \/ \E outcome \in {"return", "raise"} : CallEnds(outcome)
    \/ DelayOver
    \/ DaemonSignal

DaemonSpec == InitSched /\ [][NextDaemon]_vars

(* Runs of the targets, interleaved as in parallel mode, with the store's   *)
(* housekeeping and the operator's --clear-session between runs.           *)
Next ==
    \/ Tick
    \/ \E t \in Targets : ClearSession(t)
    \/ CleanupExpiredSessions
    \/ \E t \in Targets : SignInPlatform(t)
    \/ \E t \in Targets : Acquire(t)
    \/ \E t \in Targets : CheckLoggedIn(t)
    \/ \E t \in Targets : AfterAuthCheck(t)
    \/ \E t \in Targets : LoginReturns(t)
    \/ \E t \in Targets : SaveAfterLogin(t)
    \/ \E t \in Targets : PerformCheckIn(t)
    \/ \E t \in Targets : Teardown(t)

Spec == Init /\ [][Next]_vars

(* Runs in which the write of the session file may fail. *)
InitFault ==
    /\ now = StartClock
    /\ files \in [Targets ->
          {NoFile, File(StorageState(<<"sid">>), StartClock)}]
    /\ last = NoCall
    /\ run = [t \in Targets |-> IdleRun]
    /\ orch = NewOrch(<< >>)
    /\ sched = NewScheduler
    /\ daemon = NewDaemon

NextFault ==
    \/ \E t \in Targets : SignInPlatform(t)
    \/ \E t \in Targets : Acquire(t)
    \/ \E t \in Targets : CheckLoggedIn(t)
    \/ \E t \in Targets : AfterAuthCheck(t)
    \/ \E t \in Targets : LoginReturns(t)
    \/ \E t \in Targets : SaveAfterLoginIO(t)
    \/ \E t \in Targets : PerformCheckIn(t)
    \/ \E t \in Targets : Teardown(t)

FaultSpec == InitFault /\ [][NextFault]_vars

(***************************************************************************)
(* Two runs of one target racing on its session file.  storageState({path})*)
(* writes the file in place: it is opened and truncated, then filled, and  *)
(* the synchronous check of the other run can fall in between.             *)
(***************************************************************************)
BeginWrite(t) ==
    /\ files' = [files EXCEPT ![t] = File(Torn, now)]
    /\ last' = NoCall
    /\ UNCHANGED <<now, run, orch, sched, daemon>>

(* The write completes; when the file was unlinked meanwhile the data goes *)
(* to the unlinked file and no record appears.                             *)
EndWrite(t, blob) ==
    /\ existsSync(files, t)
    /\ files[t].data = Torn
    /\ files' = saveStorageState(files, t, blob, now)
    /\ last' = [Call("saveStorageState", t, "undefined")
                  EXCEPT !.blob = blob, !.write = "ok"]
    /\ UNCHANGED <<now, run, orch, sched, daemon>>

InitRace ==
    /\ now = StartClock
    /\ files \in [Targets ->
          {NoFile} \cup {File(StorageState(<<"sid">>), StartClock - a) :
                           a \in {0, TTL + 1}}]
    /\ last = NoCall
    /\ run = [t \in Targets |-> IdleRun]
    /\ orch = NewOrch(<< >>)
    /\ sched = NewScheduler
    /\ daemon = NewDaemon

NextRace ==
    \/ \E t \in Targets : BeginWrite(t)
    \/ \E t \in Targets, b \in Blobs : EndWrite(t, b)
    \/ \E t \in Targets : HasValidSession(t)
    \/ \E t \in Targets : GetStorageStatePath(t)
    \/ \E t \in Targets : ClearSession(t)

RaceSpec == InitRace /\ [][NextRace]_vars

(* The session store driven directly, with no run in flight. *)
NextStore ==
    \/ Tick
    \/ \E t \in Targets : HasValidSession(t)
    \/ \E t \in Targets : GetStorageStatePath(t)
    \/ \E t \in Targets : ClearSession(t)
    \/ CleanupExpiredSessions
    \/ GetAllSessions
    \/ \E t \in Targets, b \in Blobs : SaveStorageState(t, b)

StoreSpec == InitStore /\ [][NextStore]_vars

(***************************************************************************)
(* Target Runner properties                                                *)
(***************************************************************************)

(* C1: in a run whose checkLoggedIn returned true, login is never invoked. *)
C1_NoLoginWhenLoggedIn ==
    \A t \in Targets : run[t].checked = "true" => run[t].loginCalls = 0

C1_Witness ==
    \E t \in Targets :
        /\ run[t].pc = "Closed"
        /\ run[t].checked = "true"
        /\ run[t].checkInCalls = 1

(* C2: when checkLoggedIn is not true and login returns false or raises,   *)
(* the run ends as a failure and performCheckIn is never invoked; check-in *)
(* is only invoked after authentication was established in the run.        *)
C2_NoCheckInWithoutAuth ==
    \A t \in Targets :
        /\ run[t].login \in {"false", "raise"} =>
              /\ run[t].checked # "true"
              /\ run[t].checkInCalls = 0
              /\ run[t].pc \in {"Teardown", "Closed"}
              /\ run[t].out \in {"false", "raise"}
        /\ run[t].checkInCalls > 0 =>
              (run[t].checked = "true" \/ run[t].login = "true")

C2_Witness ==
    \E t \in Targets :
        /\ run[t].pc = "Closed"
        /\ run[t].checked = "false"
        /\ run[t].login = "raise"
        /\ run[t].out = "raise"

(* C3: once login has succeeded the session is saved exactly once before   *)
(* performCheckIn is invoked, and a run that started with no session file, *)
(* with checkLoggedIn false, login true and performCheckIn true, ends with *)
(* success and a session file of age 0.                                    *)
C3_SaveRightAfterLogin ==
    [][\A t \in Targets :
        /\ (run'[t].login = "true" /\ run'[t].pc # "LoggedIn")
              => run'[t].saves = 1
        /\ run'[t].checkInCalls > 0 /\ run'[t].login = "true"
              => run'[t].saves = 1
        /\ run'[t].saves > 0 => run'[t].login = "true"
        /\ (/\ run[t].pc = "Teardown" /\ run'[t].pc = "Closed"
            /\ ~run[t].hadFile
            /\ run[t].checked = "false"
            /\ run[t].login = "true"
            /\ run[t].checkin = "true")
              => /\ run'[t].out = "true"
                 /\ existsSync(files', t)
                 /\ daysSinceModified(files', t, now') = 0]_vars

C3_Witness ==
    \E t \in Targets :
        /\ run[t].pc = "Closed"
        /\ ~run[t].hadFile
        /\ run[t].checked = "false"
        /\ run[t].login = "true"
        /\ run[t].checkin = "true"
        /\ run[t].out = "true"
        /\ existsSync(files, t)
        /\ daysSinceModified(files, t, now) = 0

(* C4: a run that acquired the handle tears it down exactly once before it *)
(* is Closed, on every exit path; nothing is torn down without a handle.   *)
C4_TeardownExactlyOnce ==
    \A t \in Targets :
        /\ run[t].teardowns <= 1
        /\ run[t].pc = "Closed" =>
              run[t].teardowns = (IF run[t].handle THEN 1 ELSE 0)
        /\ run[t].pc # "Closed" => run[t].teardowns = 0

C4_Witness ==
    \E t, u \in Targets :
        /\ run[t].pc = "Closed" /\ run[t].checkin = "raise"
        /\ run[t].handle /\ run[t].teardowns = 1
        /\ run[u].pc = "Closed" /\ run[u].login = "false"
        /\ run[u].handle /\ run[u].teardowns = 1

(***************************************************************************)
(* Session store properties                                                *)
(***************************************************************************)
Target == last.target
Before == last.pre[last.target]
AgeBefore == now - last.pre[last.target].mtime

(* C5: a record older than the TTL is never valid: hasValidSession returns *)
(* false, getStorageStatePath returns null, and the record is gone after   *)
(* the check.                                                              *)
C5_ExpiredNeverValid ==
    (/\ last.op \in {"hasValidSession", "getStorageStatePath"}
     /\ Before.exists
     /\ AgeBefore > TTL)
        => /\ last.op = "hasValidSession" => last.ret = "false"
           /\ last.op = "getStorageStatePath" => last.ret = "null"
           /\ ~existsSync(files, Target)

C5_Witness ==
    /\ last.op = "getStorageStatePath"
    /\ Before.exists
    /\ Before.data = StorageState(<<"sid">>)
    /\ AgeBefore > TTL
    /\ last.ret = "null"
    /\ ~existsSync(files, Target)

MissingFields(f) ==
    f.data.json = "null" \/ (f.data.json = "object" /\ f.data.tag # "array")

(* C7 as stated: getStorageStatePath never raises; on a missing file, a    *)
(* parse error or a record missing its required fields it returns null and *)
(* no record of the target exists afterwards.                              *)
C7_Original ==
    last.op = "getStorageStatePath" =>
        /\ last.ret \in {"path", "null"}
        /\ (\/ ~Before.exists
            \/ Before.data.json = "garbage"
            \/ MissingFields(Before))
              => /\ last.ret = "null"
                 /\ ~existsSync(files, Target)

(* C7: getStorageStatePath never raises and returns null on a missing      *)
(* file, a parse error or a record missing its required fields; the record *)
(* is purged when it does not parse or parses to null, while a record that *)
(* parses to an object without a cookies array is left in place until it   *)
(* expires.                                                                *)
C7_LoadFailsSoftly ==
    last.op = "getStorageStatePath" =>
        /\ last.ret \in {"path", "null"}
        /\ (\/ ~Before.exists
            \/ Before.data.json = "garbage"
            \/ MissingFields(Before))
              => last.ret = "null"
        /\ (\/ ~Before.exists
            \/ Before.data.json \in {"garbage", "null"})
              => ~existsSync(files, Target)
        /\ (/\ Before.exists
            /\ Before.data.json = "object"
            /\ Before.data.tag # "array"
            /\ AgeBefore <= TTL)
              => files[Target] = Before

C7_Witness ==
    /\ last.op = "getStorageStatePath"
    /\ Before.exists
    /\ Before.data = Garbage
    /\ AgeBefore <= TTL
    /\ last.ret = "null"
    /\ ~existsSync(files, Target)

(* C8: right after clearSession(T) returns, hasValidSession(T) is false,   *)
(* whatever the store held before.                                         *)
C8_InvalidAfterPurge ==
    last.op = "clearSession" =>
        /\ ~existsSync(files, Target)
        /\ hasValidSession(files, Target, now).ret = "false"

C8_Witness ==
    /\ last.op = "clearSession"
    /\ hasValidSession(last.pre, Target, now).ret = "true"
    /\ hasValidSession(files, Target, now).ret = "false"

(* C9: clearSession is idempotent: on an absent record, or called twice in *)
(* a row, it raises nothing and leaves the store as it was; the records of *)
(* other targets are never touched.                                        *)
C9_PurgeIdempotent ==
    last.op = "clearSession" =>
        /\ last.ret = "undefined"
        /\ \A u \in Targets \ {Target} : files[u] = last.pre[u]
        /\ ~Before.exists => files = last.pre
        /\ last.again => files = last.pre
        /\ clearSession(files, Target) = files

C9_Witness ==
    /\ last.op = "clearSession"
    /\ last.again
    /\ files = last.pre
    /\ \E u \in Targets \ {Target} : existsSync(files, u)

(* C10: after cleanupExpiredSessions no record older than the TTL remains  *)
(* and every record at most TTL old is still there, unchanged.             *)
C10_CleanupRemovesExactlyExpired ==
    last.op = "cleanupExpiredSessions" =>
        \A t \in Targets :
            /\ existsSync(files, t) =>
                  daysSinceModified(files, t, now) <= TTL
            /\ (/\ existsSync(last.pre, t)
                /\ daysSinceModified(last.pre, t, now) <= TTL)
                  => files[t] = last.pre[t]

C10_Witness ==
    /\ last.op = "cleanupExpiredSessions"
    /\ \E t, u \in Targets :
        /\ existsSync(last.pre, t)
        /\ daysSinceModified(last.pre, t, now) > TTL
        /\ ~existsSync(files, t)
        /\ existsSync(last.pre, u)
        /\ daysSinceModified(last.pre, u, now) = TTL
        /\ files[u] = last.pre[u]

(* The records a cleanup removed. *)
Purged == {t \in Targets : existsSync(last.pre, t) /\ ~existsSync(files, t)}

(* C11 as stated: cleanupExpiredSessions returns the number of records it  *)
(* purged, 0 when no record exceeds the TTL.                               *)
C11_Original ==
    last.op = "cleanupExpiredSessions" =>
        last.ret = ToString(Cardinality(Purged))

(* C11: cleanupExpiredSessions counts the records it purged (0 when no     *)
(* record exceeds the TTL) in cleanedCount, which it only logs; the call   *)
(* itself returns undefined.                                               *)
C11_CountLoggedNotReturned ==
    last.op = "cleanupExpiredSessions" =>
        /\ last.ret = "undefined"
        /\ last.count = Cardinality(Purged)
        /\ (\A t \in Targets : existsSync(last.pre, t) =>
                daysSinceModified(last.pre, t, now) <= TTL)
              => last.count = 0

C11_Witness ==
    /\ last.op = "cleanupExpiredSessions"
    /\ last.count = 1
    /\ Cardinality(Purged) = 1
    /\ \E t \in Targets : existsSync(files, t)

(* C13: a save of a blob for T followed at once by a load of T returns     *)
(* T's record, whose cookies are that blob and whose age is 0, whatever    *)
(* record T had before.                                                    *)
C13_SaveLoadRoundTrip ==
    (last.op = "saveStorageState" /\ last.write = "ok") =>
        LET r == getStorageStatePath(files, Target, now)
        IN  /\ r.ret = "path"
            /\ r.fs = files
            /\ existsSync(r.fs, Target)
            /\ r.fs[Target].data = StorageState(last.blob)
            /\ daysSinceModified(r.fs, Target, now) = 0

C13_Witness ==
    /\ last.op = "saveStorageState"
    /\ last.write = "ok"
    /\ Before.exists
    /\ Before.data = StorageState(<<"sid">>)
    /\ AgeBefore > 0
    /\ last.blob = << >>
    /\ getStorageStatePath(files, Target, now).ret = "path"
    /\ files[Target].data.cookies = << >>

(* C12: saveStorageState never raises to its caller: a failed write is     *)
(* swallowed, the run that called it goes on to Authenticated, and every   *)
(* run whose login succeeded invokes performCheckIn before it ends.        *)
C12_SaveFailureSwallowed ==
    [][/\ last'.op = "saveStorageState" => last'.ret = "undefined"
       /\ \A t \in Targets :
            /\ (run[t].pc = "LoggedIn" /\ run'[t].pc # "LoggedIn")
                  => run'[t].pc = "Authenticated"
            /\ (run'[t].login = "true"
                /\ run'[t].pc \in {"Teardown", "Closed"})
                  => run'[t].checkInCalls = 1]_vars

C12_Witness ==
    /\ last.op = "saveStorageState"
    /\ last.write = "refused"
    /\ last.ret = "undefined"
    /\ files = last.pre
    /\ run[Target].pc = "Authenticated"

(* C14: when two runs of one target interleave their save, validity check  *)
(* and purge, a check never sees a partially written record (it sees no    *)
(* record or one complete saved blob) and never deletes a record that was  *)
(* completely saved and has not expired.                                   *)
C14_NoPartialRecordObserved ==
    last.op \in {"hasValidSession", "getStorageStatePath"} =>
        /\ Before.exists => Before.data \in {StorageState(b) : b \in Blobs}
        /\ (Before.exists /\ AgeBefore <= TTL) => files[Target] = Before

(***************************************************************************)
(* The orchestrator's passes.                                              *)
(***************************************************************************)
(* Every way the Target Runner ends is one run() is taken to end with. *)
RunnerEndsWithinRunEnds ==
    \A t \in Targets : run[t].pc = "Closed" =>
        \E e \in RunEnds(files, t, now) :
            e.out = run[t].out /\ e.message = run[t].message

N == Len(orch.platforms)

Running == {t \in Targets : InFlight(t)}

Expired(fs) == {t \in Targets : /\ existsSync(fs, t)
                                /\ daysSinceModified(fs, t, now) > TTL}

SerialPass == orch.call = "runAll" /\ ~orch.parallel

ParallelPass == orch.call = "runAll" /\ orch.parallel

(* One result per enabled platform, the k-th for the k-th platform. *)
Positional(results) ==
    /\ Len(results) = N
    /\ \A k \in 1..N : results[k].platform = orch.platforms[k]

(* C15: in a runAll pass, serial or parallel, cleanupExpiredSessions has   *)
(* completed before the first run of the pass is started: no run of the    *)
(* pass is started or in flight without it, and when the first one is      *)
(* about to be started no session file is older than the TTL.              *)
C15_HousekeepingFirst ==
    orch.call = "runAll" =>
        /\ (orch.started > 0 \/ Running # {}) => orch.housekept
        /\ orch.pc = "cleaned" => (orch.housekept /\ Expired(files) = {})

C15_Witness ==
    /\ orch.call = "runAll"
    /\ orch.passes = 0
    /\ orch.pc = "serial"
    /\ orch.started = 1
    /\ Running = {orch.platforms[1]}
    /\ orch.housekept
    /\ files = EmptyDir

(* C16: in parallel mode the promises, and at the end of the pass          *)
(* this.results, hold the k-th platform's result at position k, whatever   *)
(* the order in which the runs completed.                                  *)
C16_ParallelResultsPositional ==
    ParallelPass =>
        /\ orch.pc = "parallel" => Positional(orch.promises)
        /\ orch.pc = "idle" => Positional(orch.results)

C16_Witness ==
    /\ ParallelPass
    /\ orch.pc = "idle"
    /\ orch.done = <<"newplatform", "juejin", "bilibili">>
    /\ orch.platforms = <<"bilibili", "newplatform", "juejin">>
    /\ Positional(orch.results)
    /\ orch.results[1].success
    /\ ~orch.results[3].success

(* The first call made on the instance is a serial runAll. *)
FreshSerial ==
    /\ SerialPass
    /\ orch.passes = 0 \/ (orch.passes = 1 /\ orch.pc = "idle")

(* C17: in a serial runAll on a fresh instance the results are pushed in   *)
(* the configured order, every platform is run whatever the platforms      *)
(* before it ended with, and each result is the one of its own run.        *)
C17_SerialOrderAndIsolation ==
    FreshSerial =>
        /\ orch.pc \in {"serial", "delay"} =>
            /\ Len(orch.results) =
                  IF orch.pc = "serial" THEN orch.i - 1 ELSE orch.i
            /\ \A k \in 1..Len(orch.results) :
                  orch.results[k].platform = orch.platforms[k]
        /\ orch.pc = "idle" =>
            /\ Positional(orch.results)
            /\ orch.started = N
        /\ last.op = "signInPlatform" =>
            /\ Len(orch.results) > 0
            /\ orch.results[Len(orch.results)].platform = last.target
            /\ orch.results[Len(orch.results)].success = (last.ret = "true")

C17_Witness ==
    /\ FreshSerial
    /\ orch.pc = "idle"
    /\ N = 3
    /\ ~orch.results[1].success
    /\ orch.results[1].error = "none"
    /\ ~orch.results[2].success
    /\ orch.results[2].error # "none"
    /\ orch.results[3].success
    /\ last.op = "signInPlatform"

(* C18: in a serial pass over n platforms at most one run is in flight,    *)
(* the run of platform i+1 is started only when the run of platform i has  *)
(* ended and one more delay has elapsed, and the pass makes exactly        *)
(* max(n-1, 0) delays, none after the last platform.                       *)
C18_SerialOneAtATime ==
    SerialPass =>
        /\ Cardinality(Running) <= 1
        /\ orch.pc = "cleaned" => (orch.started = 0 /\ orch.delays = 0)
        /\ orch.pc = "serial" =>
            /\ Running \subseteq {orch.platforms[orch.i]}
            /\ orch.started = orch.i
            /\ orch.delays = orch.i - 1
        /\ orch.pc = "delay" =>
            /\ Running = {}
            /\ orch.i < N
            /\ orch.started = orch.i
            /\ orch.delays = orch.i - 1
        /\ orch.pc = "idle" =>
            /\ Running = {}
            /\ orch.started = N
            /\ orch.delays = IF N = 0 THEN 0 ELSE N - 1

C18_Witness ==
    /\ SerialPass
    /\ orch.pc = "idle"
    /\ N = 3
    /\ orch.started = 3
    /\ orch.delays = 2

(* The result signInPlatform has just returned. *)
Returned1 ==
    IF orch.pc = "parallel"
    THEN orch.promises[CHOOSE k \in 1..N : orch.platforms[k] = last.target]
    ELSE orch.results[Len(orch.results)]

(* C19: signInPlatform never throws to runAll or runSingle: it returns one *)
(* result, whose success is TRUE exactly when run() returned true, and     *)
(* when run() or the class lookup threw, the result has success FALSE and  *)
(* the message of what was thrown in error.                                *)
C19_SignInPlatformNeverRaises ==
    /\ \A k \in 1..Len(orch.results) :
        /\ ~orch.results[k].threw
        /\ orch.results[k].platform \notin Targets =>
              /\ ~orch.results[k].success
              /\ orch.results[k].error = "no implementation class"
    /\ \A k \in 1..Len(orch.promises) :
        /\ ~orch.promises[k].threw
        /\ orch.promises[k].platform \notin Targets =>
              /\ ~orch.promises[k].success
              /\ orch.promises[k].error = "no implementation class"
    /\ last.op = "signInPlatform" =>
        /\ orch.pc = "parallel" \/ Len(orch.results) > 0
        /\ orch.call = "runSingle" => Len(orch.results) = 1
        /\ Returned1.platform = last.target
        /\ ~Returned1.threw
        /\ Returned1.success = (last.ret = "true")
        /\ Returned1.error = IF last.ret = "raise" THEN last.message
                             ELSE "none"

C19_Witness ==
    /\ last.op = "signInPlatform"
    /\ last.target = "juejin"
    /\ last.ret = "raise"
    /\ orch.pc = "idle"
    /\ Len(orch.results) = 3
    /\ orch.results[2].error = "no implementation class"
    /\ orch.results[3].platform = "juejin"
    /\ ~orch.results[3].success
    /\ orch.results[3].error = "check-in raised"

(* C20: whatever runAll and runSingle calls were made on the instance      *)
(* before, when a runAll has printed its statistics this.results holds     *)
(* one result per enabled platform, in order, and successCount plus        *)
(* failCount is the number of results.                                     *)
C20_Original ==
    (orch.pc = "idle" /\ orch.call = "runAll" /\ orch.report.printed) =>
        /\ Positional(orch.results)
        /\ orch.report.total = Len(orch.results)
        /\ orch.report.successCount + orch.report.failCount
              = Len(orch.results)

(* The step is a runSingle whose platform is not among the enabled ones. *)
NotFound == /\ orch.pc = "idle"
            /\ orch'.pc = "idle"
            /\ orch'.call = "runSingle"
            /\ orch'.passes = orch.passes + 1

(* The step is a runSingle whose platform is enabled: signInPlatform is    *)
(* entered.                                                                *)
Found == orch.pc = "idle" /\ orch'.pc = "single"

(* C21 as stated: a runSingle of a platform that is not enabled yields a   *)
(* report of one failed result "not found or not enabled".                 *)
C21_Original ==
    [][NotFound =>
          /\ orch'.report.printed
          /\ Len(orch'.results) = 1
          /\ ~orch'.results[1].success]_vars

(* C21: a runSingle of a platform that is not enabled only logs the        *)
(* failure: it starts no run, prints no statistics and leaves this.results *)
(* as it was; a runSingle of an enabled platform enters signInPlatform     *)
(* once, for that platform, which starts at most its one run, and when it  *)
(* returns this.results is exactly that one result and is printed.         *)
C21_RunSingleOneOrNothing ==
    [][/\ NotFound =>
            /\ orch'.results = orch.results
            /\ ~orch'.report.printed
            /\ orch'.started = 0
            /\ run' = run
       /\ Found =>
            /\ orch'.started = 1
            /\ orch'.platforms[orch'.i] \in Range(orch.platforms)
            /\ {t \in Targets : InFlight(t)'}
                  = {orch'.platforms[orch'.i]} \cap Targets
       /\ (orch.pc = "single" /\ orch'.pc = "idle") =>
            /\ Len(orch'.results) = 1
            /\ orch'.results[1].platform = orch.platforms[orch.i]
            /\ orch'.report.printed
            /\ orch'.report.total = 1
            /\ {t \in Targets : InFlight(t)'} = {}]_vars

C21_Witness ==
    /\ orch.pc = "idle"
    /\ orch.call = "runSingle"
    /\ orch.started = 0
    /\ orch.passes = 2
    /\ Len(orch.results) = 3
    /\ ~orch.report.printed
    /\ Running = {}

(* C22: a parallel runAll prints its statistics and returns only when      *)
(* every run it started has ended: while one is in flight nothing is       *)
(* printed, and once the pass is over none is in flight.                   *)
C22_ParallelJoinsAll ==
    ParallelPass =>
        /\ Running # {} => (orch.pc = "parallel" /\ ~orch.report.printed)
        /\ orch.pc = "idle" =>
            /\ Running = {}
            /\ Len(orch.done) = orch.started
            /\ \A k \in 1..Len(orch.results) :
                  orch.results[k] # Pending(orch.platforms[k])

C22_Witness ==
    /\ ParallelPass
    /\ orch.pc = "idle"
    /\ orch.started = 3
    /\ orch.report.printed
    /\ orch.report.total = 3
    /\ Running = {}

(***************************************************************************)
(* The scheduler.                                                          *)
(***************************************************************************)
(* The entries of the latest start or addMultipleSchedules whose           *)
(* expression cron.validate refuses.                                       *)
Refused == {k \in 1..Len(last'.arg) :
               ~CronGrammar(last'.arg[k].cronExpression)}

(* C23: a start or addMultipleSchedules entry whose cron expression is     *)
(* invalid creates no timer and registers no name: a rejected start        *)
(* changes nothing, addMultipleSchedules creates one timer per valid       *)
(* entry only, and the timers that existed stay as they were.              *)
C23_InvalidExpressionRejected ==
    [][/\ (last'.op = "start" /\ Refused # {}) =>
            /\ last'.ret \in {"invalid", "already running"}
            /\ sched' = sched
            /\ getStatus(sched').tasks = getStatus(sched).tasks
       /\ last'.op = "addMultipleSchedules" =>
            /\ Len(sched'.timers) = Len(sched.timers)
                  + (Len(last'.arg) - Cardinality(Refused))
            /\ \A k \in 1..Len(sched.timers) :
                  sched'.timers[k] = sched.timers[k]
            /\ Refused = 1..Len(last'.arg) =>
                  /\ sched' = sched
                  /\ getStatus(sched').tasks = getStatus(sched).tasks
            /\ getStatus(sched').tasks \subseteq getStatus(sched).tasks \cup
                  {TaskName(last'.arg[k], k - 1) :
                      k \in (1..Len(last'.arg)) \ Refused}]_vars

C23_Witness ==
    /\ last.op = "addMultipleSchedules"
    /\ Len(last.arg) = 2
    /\ last.arg[1].cronExpression = Bad99
    /\ last.arg[1].name = "none"
    /\ last.arg[2].cronExpression = Daily8
    /\ last.arg[2].name = "none"
    /\ getStatus(sched).tasks = {"main", "task_1"}
    /\ Started(sched) = {1, 2}

(* The started timers that were created under the name n. *)
Alive(s, n) == {k \in Started(s) : s.timers[k].name = n}

(* C24: a name that is registered keeps its timer unless a stop removes    *)
(* it, and no name ever has two started timers.                            *)
C24_Original ==
    [][/\ \A n \in TaskNames :
            (sched.tasks[n] # 0 /\ last'.op \notin {"stop", "signal"})
               => sched'.tasks[n] = sched.tasks[n]
       /\ \A n \in TaskNames : Cardinality(Alive(sched', n)) <= 1]_vars

(* C25: when a call made by a firing throws, the callback catches it: the  *)
(* process goes on, tasks and timers are as they were, and the timer, if   *)
(* it is still started, can fire again.                                    *)
C25_FiringFailureCaught ==
    [][(last'.op = "firing" /\ last'.ret = "raise") =>
          /\ sched'.process = "running"
          /\ sched'.timers = sched.timers
          /\ sched'.tasks = sched.tasks
          /\ sched'.isRunning = sched.isRunning
          /\ sched'.firing = NoFiring
          /\ sched.firing.timer \in Started(sched)
                => sched.firing.timer \in Started(sched')]_vars

C25_Witness ==
    /\ sched.caught # 0
    /\ sched.firing.timer = sched.caught
    /\ sched.firing.pc = "calling"
    /\ sched.caught \in Started(sched)
    /\ sched.process = "running"

(* The calls a firing is to make: runSingle for each platform of the       *)
(* filter with a delay between two of them, or one runAll.                 *)
Expected(options) ==
    IF Len(options.platforms) = 0 THEN <<RunAllCall(options.parallel)>>
    ELSE [k \in 1..(2 * Len(options.platforms) - 1) |->
             IF k % 2 = 1 THEN RunSingleCall(options.platforms[(k + 1) \div 2])
             ELSE DelayCall]

(* C26: a firing that ends without a throw has made exactly the calls of   *)
(* its options, whichever method registered its timer.                     *)
C26_Original ==
    (last.op = "firing" /\ last.ret = "done") =>
        last.arg = Expected(sched.timers[last.count].options)

(* C27: after stop nothing is registered and no timer is started. *)
C27_Original ==
    last.op = "stop" => (Registered(sched) = {} /\ Started(sched) = {})

(* C28: getStatus reports the names of the started timers, reports         *)
(* isRunning exactly when a name is registered, and changes nothing.       *)
C28_Original ==
    [][/\ getStatus(sched').tasks
             = {sched'.timers[k].name : k \in Started(sched')}
       /\ getStatus(sched').isRunning = (Registered(sched') # {})
       /\ last'.op = "getStatus" =>
             (sched' = sched /\ last'.arg = <<getStatus(sched)>>)]_vars

(* C29: when the process has exited on a signal the scheduler was stopped  *)
(* and no call of a firing was cut short.                                  *)
C29_Original ==
    sched.process = "exited" =>
        /\ ~sched.isRunning
        /\ sched.firing.pc # "cancelled"

(* C30: validateCronExpression accepts exactly the expressions of the      *)
(* documented syntax.                                                      *)
C30_Original ==
    last.op = "validateCronExpression" =>
        (last.ret = "true") = CronGrammar(last.arg[1])

(* A session file older than the TTL. *)
Stale(fs, t, clock) ==
    existsSync(fs, t) /\ daysSinceModified(fs, t, clock) > TTL

(* Positions of a run at which the driver is being, or has been, called. *)
DriverCalled == {"Initialized", "AuthChecked", "LoggingIn", "LoggedIn",
                 "Authenticated"}

(* C32: a run that finds a session file older than the TTL purges it when  *)
(* it acquires the handle, before any driver call, and goes on unseeded;   *)
(* no driver call is made while a stale file of the target is there.       *)
C32_StalePurgedBeforeDriver ==
    [][\A t \in Targets :
          /\ (run[t].pc = "Start" /\ run'[t].pc = "Initialized"
                /\ Stale(files, t, now))
                => (files'[t] = NoFile /\ ~run'[t].seeded)
          /\ run'[t].pc \in DriverCalled => ~Stale(files', t, now')]_vars

C32_Witness ==
    /\ last.op = "getStorageStatePath"
    /\ run[last.target].pc = "Initialized"
    /\ Stale(last.pre, last.target, now)
    /\ last.pre[last.target].data = StorageState(<<"sid">>)
    /\ files[last.target] = NoFile
    /\ ~run[last.target].seeded

(* C33: a run calls login at most once and performCheckIn at most once; a  *)
(* failed acquisition, login or check-in leads to the teardown with a      *)
(* failure and the run is over; only a new signInPlatform starts a run.    *)
C33_NoRetryWithinRun ==
    [][\A t \in Targets :
          /\ run'[t].loginCalls <= 1
          /\ run'[t].checkInCalls <= 1
          /\ (run[t].pc = "Start" /\ run'[t].pc # "Start"
                /\ ~run'[t].handle)
                => (run'[t].pc = "Teardown" /\ run'[t].out = "raise")
          /\ (run[t].pc = "LoggingIn" /\ run'[t].login \in {"false", "raise"})
                => (run'[t].pc = "Teardown" /\ run'[t].out # "true")
          /\ (run[t].pc = "Authenticated"
                /\ run'[t].checkin \in {"false", "raise"})
                => (run'[t].pc = "Teardown" /\ run'[t].out # "true")
          /\ run[t].pc = "Teardown" => run'[t].pc \in {"Teardown", "Closed"}
          /\ (run[t].pc = "Closed" /\ run'[t] # run[t])
                => run'[t] = StartedRun(t)]_vars

C33_Witness ==
    \E t \in Targets :
        /\ run[t].pc = "Closed"
        /\ run[t].checkin = "false"
        /\ run[t].checkInCalls = 1
        /\ run[t].out = "false"

(* C37: every entry of getAllSessions carries as isValid what              *)
(* hasValidSession returns for that platform in the same directory, and    *)
(* the call leaves the directory as it was.                                *)
C37_Original ==
    last.op = "getAllSessions" =>
        /\ files = last.pre
        /\ \A s \in last.arg[1] :
              s.isValid
                 = (hasValidSession(last.pre, s.platform, now).ret = "true")

(* A runNow is in progress. *)
Manual(f) == f.pc # "none" /\ f.timer = 0

(* C34: no step of a runNow, from its call to its return or its caught     *)
(* throw, changes this.tasks, a timer or isRunning.                        *)
C34_RunNowLeavesSchedules ==
    [][(/\ Manual(sched.firing) \/ Manual(sched'.firing)
        /\ sched'.firing # sched.firing
        /\ last'.op # "signal")
          => /\ sched'.tasks = sched.tasks
             /\ sched'.timers = sched.timers
             /\ sched'.isRunning = sched.isRunning
             /\ getStatus(sched') = getStatus(sched)]_vars

C34_Witness ==
    /\ last.op = "runNow"
    /\ last.ret = "raise"
    /\ sched.isRunning
    /\ Registered(sched) = {"main"}
    /\ Started(sched) = {1}

(* The scheduler after start and stop: one timer, stopped, nothing         *)
(* registered.                                                             *)
AfterStartStop(s) ==
    /\ Len(s.timers) = 1
    /\ s.timers[1].via = "start"
    /\ ~s.timers[1].started
    /\ Registered(s) = {}

(* C38: a start with a valid expression after start and stop registers     *)
(* and starts one timer under 'main', and the status is that of a new      *)
(* scheduler after the same start.                                         *)
C38_RestartAfterStop ==
    [][(/\ AfterStartStop(sched)
        /\ last'.op = "start"
        /\ cronValidate(last'.arg[1].cronExpression))
          => /\ last'.ret = "started"
             /\ getStatus(sched')
                  = getStatus(start(NewScheduler,
                                    last'.arg[1].cronExpression,
                                    last'.arg[1].options).sched)
             /\ getStatus(sched').isRunning
             /\ getStatus(sched').tasks = {"main"}
             /\ Started(sched') = {2}
             /\ sched'.timers[2].options = last'.arg[1].options]_vars

C38_Witness ==
    /\ last.op = "start"
    /\ last.ret = "started"
    /\ Len(sched.timers) = 2
    /\ sched.timers[1].via = "start"
    /\ ~sched.timers[1].started
    /\ sched.tasks["main"] = 2
    /\ sched.isRunning

(* C39: for an expression cron accepts, getNextExecutionTime answers the   *)
(* next instant at which the expression fires: today when that is still    *)
(* ahead, else the next day.                                               *)
C39_Original ==
    (last.op = "getNextExecutionTime" /\ cronValidate(last.arg[1])) =>
        last.arg[3] = NextFiring(last.arg[1], last.arg[2])

(***************************************************************************)
(* Daemon properties                                                       *)
(***************************************************************************)
DaemonOptions == parseArgs(daemon.argv, 1, DefaultOptions)

(* The callback of the daemon's timer is awaiting its runAll. *)
CallbackPass ==
    /\ sched.firing.pc = "calling"
    /\ Len(sched.firing.options.platforms) = 0

(* C35: in a daemon without a target filter as many passes have been begun *)
(* as the timer has fired, and the pass of a firing never runs beside      *)
(* another pass.                                                           *)
C35_Original ==
    (daemon.pc # "new" /\ Len(DaemonOptions.platforms) = 0) =>
        /\ daemon.passes = daemon.firings
        /\ ~(CallbackPass /\ daemon.mainPass = "running")

(* C36: a daemon whose isRunning is true has a scheduler that is running   *)
(* with a registered, started schedule.                                    *)
C36_Original ==
    daemon.isRunning =>
        /\ getStatus(sched).isRunning
        /\ getStatus(sched).taskCount >= 1
        /\ Started(sched) # {}

(***************************************************************************)
(* Driver properties                                                       *)
(***************************************************************************)
ThePage == last.arg[1]

(* A login button whose text carries a login word of the driver. *)
ShowsLogin(d, page) ==
    /\ page.loginButton
    /\ \E w \in LoginWords(d) : includes(page.loginText, w)

(* C31: isLoggedIn never raises; an error on the page yields false; true   *)
(* is returned only when the avatar or the user info was found and no      *)
(* login button with a login text is there.                                *)
C31_IsLoggedInFailsTowardFalse ==
    last.op = "isLoggedIn" =>
        /\ last.ret \in {"true", "false"}
        /\ (ThePage.fault \in {"waitForTimeout", "$"}) => last.ret = "false"
        /\ (ThePage.fault = "textContent" /\ ThePage.loginButton)
              => last.ret = "false"
        /\ last.ret = "true" =>
              /\ ThePage.userAvatar \/ ThePage.userInfo
              /\ ~ShowsLogin(last.target, ThePage)

C31_Witness ==
    /\ last.op = "isLoggedIn"
    /\ last.target = "juejin.selectors"
    /\ ThePage.fault = "$"
    /\ ThePage.userAvatar
    /\ ~ThePage.loginButton
    /\ last.ret = "false"

TheForm == last.arg[1]

StepsSucceeded(form) ==
    /\ form.openLoginModal = "true"
    /\ form.usernameInput = "true"
    /\ form.passwordInput = "true"
    /\ form.submitButton = "true"

====
